---- MODULE Spec2Model ----
(***************************************************************************)
(* The columnar layer-file writer and reader of submerge-coldb             *)
(* (layer -> block -> track -> chunk), modelled at byte level.             *)
(*                                                                         *)
(* Numbers: an i64 is a TLA+ integer; the model's writers only produce     *)
(* values far below 2^30.  Bytes read back from a file that hold a value   *)
(* outside (-2^30, 2^30) decode to HugePos / HugeNeg (see from_le_bytes).  *)
(* A Bitmap256 is the set of its set bit indices; its 32 bytes are         *)
(* computed from the set when it is written.  A Vec<u8> is its length and  *)
(* the map from the (1-based) places of its non-zero bytes to those bytes. *)
(***************************************************************************)
EXTENDS Integers, Sequences, FiniteSets, TLC

VARIABLES
    wr,       \* the MemWriter: bytes, cursor, annotation context and ranges
    stage,    \* which writer object is live: new/layer/block/track/finished/reading/opened/error
    lw,       \* LayerWriter.meta
    bw,       \* BlockWriter: meta and info
    tw,       \* TrackWriter: meta and info
    result,   \* the Result of the last writer operation: op name and error ("" = Ok)
    vals_in,  \* the values handed to write_dict_encoded for the current track
    rd,       \* the reader side: content, corruption count, LayerReader::new outcome
    ev,       \* the last call of a pure function: function, argument, return
    heap,     \* a Heap: its data
    adds,     \* the Heap::add calls made so far: slice given, offset returned
    handles,  \* the open Reader handles on one content: bytes and cursor of each
    bitmap,   \* a Bitmap256: its four words
    double    \* a DoubleBitmap256: its eight words

vars == <<wr, stage, lw, bw, tw, result, vals_in, rd, ev, heap, adds, handles, bitmap, double>>

(***************************************************************************)
(* Bounds of the model.                                                    *)
(***************************************************************************)
MaxBlocks == 2          \* blocks begun per layer in Spec
MaxTracks == 1          \* tracks begun per layer in Spec
MaxEncLen == 5          \* input length of the pure encoders in SpecEnc
MaxTrackRows == 7       \* rows of the single track of SpecTrack
MaxReadBlocks == 1      \* blocks per layer in SpecRead
MaxCorrupt == 1         \* byte overwrites / truncations of a finished file in SpecRead
TryTracks == 257        \* tracks attempted in one block in SpecTrackCap
TryBlocks == 258        \* blocks attempted in one layer in SpecBlockCap

TrackVals == {5, 6}             \* the i64 values rows are drawn from
EncVals == {3, 4, 5}            \* the values the pure encoders are fed
JunkBytes == {0, 255}           \* what a corrupted byte is overwritten with
PointerWidths == {32, 64}       \* usize width of the build

(***************************************************************************)
(* Program constants.                                                      *)
(***************************************************************************)
MAGIC == <<115, 117, 98, 109, 101, 114, 103, 101>>   \* b"submerge"
VERS == 0
MaxTrackRowsU16 == 65535        \* 0xffff
ChunkLen == 256                 \* chunks(256)
MaxTrackNum == 255              \* "track count > 255"
HugePos == 2^30                 \* stands for every i64 >= 2^30
HugeNeg == 0 - 2^30             \* stands for every i64 <= -(2^30)

Min(a, b) == IF a < b THEN a ELSE b
Max(a, b) == IF a > b THEN a ELSE b

\* Option<T>
None == [some |-> FALSE, val |-> <<>>]
Some(v) == [some |-> TRUE, val |-> v]

RECURSIVE SeqsUpTo(_, _)
SeqsUpTo(S, n) ==
    IF n = 0 THEN {<<>>}
    ELSE LET shorter == SeqsUpTo(S, n - 1)
         IN  shorter \cup {Append(s, v) : s \in {t \in shorter : Len(t) = n - 1}, v \in S}

(***************************************************************************)
(* 64-bit numbers beyond the range of the model's integers: a u64 is its   *)
(* four 16-bit limbs, most significant first; an i64 is its sign and the   *)
(* limbs of its magnitude (a negative i64 has a non-zero magnitude).       *)
(***************************************************************************)
Limb == 65536

U64(a, b, c, d) == <<a, b, c, d>>
I64(neg, mag) == [neg |-> neg, mag |-> mag]

U64_lt(a, b) ==
    \E k \in 1..4 : a[k] < b[k] /\ \A j \in 1..(k - 1) : a[j] = b[j]

\* a - b modulo 2^64, limb by limb with borrow
U64_wrapping_sub(a, b) ==
    LET d4 == a[4] - b[4]
        b4 == IF d4 < 0 THEN 1 ELSE 0
        d3 == a[3] - b[3] - b4
        b3 == IF d3 < 0 THEN 1 ELSE 0
        d2 == a[2] - b[2] - b3
        b2 == IF d2 < 0 THEN 1 ELSE 0
        d1 == a[1] - b[1] - b2
    IN  <<d1 % Limb, d2 % Limb, d3 % Limb, d4 % Limb>>

\* `x as u64`: the two's complement bits of the i64
as_u64(x) == IF x.neg THEN U64_wrapping_sub(U64(0, 0, 0, 0), x.mag) ELSE x.mag

\* the i64 with the given two's complement bits
I64_from_bits(u) ==
    IF u[1] >= 32768 THEN I64(TRUE, U64_wrapping_sub(U64(0, 0, 0, 0), u))
    ELSE I64(FALSE, u)

\* i64 Ord
I64_lt(a, b) ==
    IF a.neg # b.neg THEN a.neg
    ELSE IF a.neg THEN U64_lt(b.mag, a.mag)
    ELSE U64_lt(a.mag, b.mag)

\* u64::to_le_bytes
U64_to_le_bytes(u) ==
    <<u[4] % 256, u[4] \div 256, u[3] % 256, u[3] \div 256,
      u[2] % 256, u[2] \div 256, u[1] % 256, u[1] \div 256>>

\* u64::from_le_bytes and u64::from_be_bytes of 8 bytes
U64_from_le_bytes(b) ==
    U64(b[8] * 256 + b[7], b[6] * 256 + b[5], b[4] * 256 + b[3], b[2] * 256 + b[1])
U64_from_be_bytes(b) ==
    U64(b[1] * 256 + b[2], b[3] * 256 + b[4], b[5] * 256 + b[6], b[7] * 256 + b[8])

(***************************************************************************)
(* Little-endian numbers.                                                  *)
(***************************************************************************)
\* T::to_le_bytes for an N-byte two's complement integer
RECURSIVE to_le_bytes(_, _)
to_le_bytes(v, N) ==
    IF N = 0 THEN <<>> ELSE <<v % 256>> \o to_le_bytes(v \div 256, N - 1)

\* u16::to_be_bytes
to_be_bytes_u16(v) == <<(v \div 256) % 256, v % 256>>

\* i64::from_le_bytes of 8 bytes; exact inside (-2^30, 2^30), else Huge*
from_le_bytes(b) ==
    LET low24 == b[1] + 256 * b[2] + 65536 * b[3]
        upper == {b[5], b[6], b[7], b[8]}
    IN  IF upper = {0} /\ b[4] < 64 THEN low24 + 16777216 * b[4]
        ELSE IF upper = {255} /\ b[4] >= 192 THEN low24 + 16777216 * (b[4] - 256)
        ELSE IF b[8] >= 128 THEN HugeNeg
        ELSE HugePos

(***************************************************************************)
(* Bitmap256 (submerge-base) as the set of set bits.                       *)
(***************************************************************************)
Bitmap256_new == {}
Bitmap256_set(bm, i, val) == IF val THEN bm \cup {i} ELSE bm \ {i}
Bitmap256_get(bm, i) == i \in bm
Bitmap256_count(bm) == Cardinality(bm)
Bitmap256_any(bm) == bm # {}

\* the four u64 words in little-endian order: byte j holds bits 8j .. 8j+7
Bitmap256_bytes(bm) ==
    [j \in 1..32 |->
        LET base == 8 * (j - 1)
            bit(k) == IF (base + k) \in bm THEN 2^k ELSE 0
        IN  bit(0) + bit(1) + bit(2) + bit(3) + bit(4) + bit(5) + bit(6) + bit(7)]

(***************************************************************************)
(* MemWriter and the Writer trait (ioutil.rs), with test-build annotations.*)
(***************************************************************************)
Vec_new == [len |-> 0, nz |-> <<>>]
Vec_get(v, i) == IF i \in DOMAIN v.nz THEN v.nz[i] ELSE 0
\* bytes a..b of the vector (1-based, inclusive), as a sequence
Vec_slice(v, a, b) == [i \in 1..(b - a + 1) |-> Vec_get(v, a + i - 1)]
\* buf written over the bytes after the first pos: a gap past the end is
\* zero-filled, the vector grows to hold the end of buf
Vec_write(v, pos, buf) ==
    LET end == pos + Len(buf)
        kept == {i \in DOMAIN v.nz : i <= pos \/ i > end}
        set == {pos + j : j \in {j \in 1..Len(buf) : buf[j] # 0}}
    IN  [len |-> Max(v.len, end),
         nz |-> [i \in kept \cup set |-> IF i \in set THEN buf[i - pos] ELSE v.nz[i]]]
Vec_truncate(v, n) ==
    [len |-> Min(v.len, n), nz |-> [i \in {i \in DOMAIN v.nz : i <= n} |-> v.nz[i]]]

\* popped_none records that some context.pop() found the stack empty and
\* returned None (Vec::pop does not panic, so the bytes cannot show it)
MemWriter_new(test) ==
    [mem |-> Vec_new, pos |-> 0, context |-> <<>>, annotations |-> <<>>, test |-> test,
     popped_none |-> FALSE]

\* Cursor<Vec<u8>>::write_all: overwrite at the cursor, zero-fill a gap, extend
write_all(w, buf) ==
    [w EXCEPT !.mem = Vec_write(@, w.pos, buf), !.pos = w.pos + Len(buf)]

rewind(w) == [w EXCEPT !.pos = 0]

push_context(w, c) == IF w.test THEN [w EXCEPT !.context = Append(@, c)] ELSE w
pop_context(w) ==
    IF w.test
    THEN [w EXCEPT !.context = SubSeq(@, 1, Len(@) - 1),
                   !.popped_none = @ \/ w.context = <<>>]
    ELSE w

\* Annotations::annotate through Writer::annotate_to_pos_from
annotate_to_pos_from(w, name, start) ==
    IF w.test
    THEN [w EXCEPT !.annotations =
             Append(@, [range |-> <<start, w.pos>>, name |-> Append(w.context, name)])]
    ELSE w

write_annotated_byte_slice(w, name, val) ==
    annotate_to_pos_from(write_all(w, val), name, w.pos)

write_annotated_le_num(w, name, val, N) ==
    write_annotated_byte_slice(w, name, to_le_bytes(val, N))

\* the N little-endian bytes of every value, one value after the other
le_slice_bytes(vals, N) ==
    [j \in 1..(Len(vals) * N) |->
        to_le_bytes(vals[((j - 1) \div N) + 1], N)[((j - 1) % N) + 1]]

write_annotated_le_num_slice(w, name, vals, N) ==
    write_annotated_byte_slice(w, name, le_slice_bytes(vals, N))

\* write_len_of_footer_starting_at with a slip: the length counts its own word
write_len_of_footer_counting_itself(w, start_pos) ==
    write_annotated_le_num(w, "self_len", w.pos - start_pos + 8, 8)

\* never fails here: pos >= start_pos on every path (len < 0 is an Err in the code)
write_len_of_footer_starting_at(w, start_pos) ==
    write_annotated_le_num(w, "self_len", w.pos - start_pos, 8)

Bitmap256_write_annotated(bm, name, w) ==
    pop_context(write_annotated_byte_slice(push_context(w, name), "bitmap",
                                           Bitmap256_bytes(bm)))

(***************************************************************************)
(* WordTy and WordTy256 (wordty.rs).                                       *)
(***************************************************************************)
WordTy256_default == [hi |-> Bitmap256_new, lo |-> Bitmap256_new]

WordTy_len(ty) == ty        \* Word1/2/4/8 are named by their byte length

WordTy256_set_word_ty(t, i, ty) ==
    [hi |-> Bitmap256_set(t.hi, i, ty \in {4, 8}),
     lo |-> Bitmap256_set(t.lo, i, ty \in {2, 8})]

WordTy256_write_annotated(t, name, w) ==
    annotate_to_pos_from(
        write_all(w, Bitmap256_bytes(t.lo) \o Bitmap256_bytes(t.hi)), name, w.pos)

(***************************************************************************)
(* LayerMeta and LayerWriter (layer.rs).                                   *)
(***************************************************************************)
LayerMeta_default == [vers |-> 0, rows |-> 0, cols |-> 0, block_end_offsets |-> <<>>]

LayerMeta_write_magic_header(w) ==
    write_annotated_byte_slice(rewind(w), "magic", MAGIC)

\* LayerMeta_write with a slip: the footer leaves out the block count
LayerMeta_write_without_count(meta, w) ==
    LET w0 == push_context(w, "meta")
        start_pos == w.pos
        w1 == write_annotated_le_num(w0, "vers", VERS, 8)
        w2 == write_annotated_le_num(w1, "rows", meta.rows, 8)
        w3 == write_annotated_le_num(w2, "cols", meta.cols, 8)
        w5 == write_annotated_le_num_slice(w3, "block_end_offsets",
                                           meta.block_end_offsets, 8)
        w6 == write_len_of_footer_starting_at(w5, start_pos)
    IN  [err |-> "", wr |-> pop_context(w6)]

\* `blocks != ublocks as i64` never holds: the count is written as it is
LayerMeta_write(meta, w) ==
    LET w0 == push_context(w, "meta")
        start_pos == w.pos
        w1 == write_annotated_le_num(w0, "vers", VERS, 8)
        w2 == write_annotated_le_num(w1, "rows", meta.rows, 8)
        w3 == write_annotated_le_num(w2, "cols", meta.cols, 8)
        blocks == Len(meta.block_end_offsets)
        w4 == write_annotated_le_num(w3, "blocks", blocks, 8)
        w5 == write_annotated_le_num_slice(w4, "block_end_offsets",
                                           meta.block_end_offsets, 8)
        w6 == write_len_of_footer_starting_at(w5, start_pos)
    IN  [err |-> "", wr |-> pop_context(w6)]

LayerWriter_new(w) ==
    [meta |-> LayerMeta_default,
     wr |-> LayerMeta_write_magic_header(push_context(w, "layer"))]

LayerWriter_note_block_finished(meta, info) ==
    [meta EXCEPT !.block_end_offsets = Append(@, info.end_pos)]

(***************************************************************************)
(* BlockMeta and BlockWriter (block.rs).                                   *)
(***************************************************************************)
BlockMeta_default ==
    [track_lo_vals |-> <<>>, track_hi_vals |-> <<>>, track_implicit |-> Bitmap256_new,
     track_rows |-> <<>>, track_end_offsets |-> <<>>]

BlockWriter_new(block_num, w) ==
    [meta |-> BlockMeta_default,
     info |-> [block_num |-> block_num, end_pos |-> 0],
     wr |-> push_context(push_context(w, "block"), ToString(block_num))]

BlockMeta_write(meta, w) ==
    LET ntracks == Len(meta.track_lo_vals)
    IN  IF ntracks # Len(meta.track_hi_vals)
        THEN [err |-> "track_lo_vals and track_hi_vals length mismatch", wr |-> w]
        ELSE IF ntracks > 255
        THEN [err |-> "track count > 255", wr |-> w]
        ELSE IF ntracks # Len(meta.track_rows)
        THEN [err |-> "track_lo_vals and track_rows length mismatch", wr |-> w]
        ELSE IF ntracks # Len(meta.track_end_offsets)
        THEN [err |-> "track_lo_vals and track_end_offsets length mismatch", wr |-> w]
        ELSE
        LET w0 == push_context(w, "meta")
            start_pos == w.pos
            w1 == write_annotated_le_num(w0, "track_num", ntracks, 8)
            w2 == write_annotated_le_num_slice(w1, "track_lo_vals", meta.track_lo_vals, 8)
            w3 == write_annotated_le_num_slice(w2, "track_hi_vals", meta.track_hi_vals, 8)
            w4 == Bitmap256_write_annotated(meta.track_implicit, "track_implicit", w3)
            w5 == write_annotated_le_num_slice(w4, "track_rows", meta.track_rows, 2)
            w6 == write_annotated_le_num_slice(w5, "track_end_offsets",
                                               meta.track_end_offsets, 8)
            w7 == write_len_of_footer_starting_at(w6, start_pos)
        IN  [err |-> "", wr |-> pop_context(w7)]

BlockWriter_note_track_finished(meta, info) ==
    [track_lo_vals |-> Append(meta.track_lo_vals, info.lo_val),
     track_hi_vals |-> Append(meta.track_hi_vals, info.hi_val),
     track_implicit |-> Bitmap256_set(meta.track_implicit, info.track_num, info.implicit),
     track_rows |-> Append(meta.track_rows, info.rows),
     track_end_offsets |-> Append(meta.track_end_offsets, info.end_pos)]

\* the info handed to the layer writer is the one built by BlockWriter::new:
\* finish_block never assigns info.end_pos
BlockWriter_finish_block(b, w) ==
    LET done(m) ==
            IF m.err # "" THEN [err |-> m.err, wr |-> m.wr, info |-> b.info]
            ELSE [err |-> "", wr |-> pop_context(pop_context(m.wr)), info |-> b.info]
    IN  done(BlockMeta_write(b.meta, w))

(***************************************************************************)
(* DictEncodable (dict.rs) for the three value types, with every i64 at    *)
(* full width: an i64, an OrderedFloat<f64> holding a small integer, a     *)
(* byte slice of at most 8 bytes (the hash and heap-offset components of   *)
(* longer slices are outside the model's values).                          *)
(***************************************************************************)
IntVal(v) == [kind |-> "int", v |-> v]
FloVal(v) == [kind |-> "flo", v |-> v]
BinVal(b) == [kind |-> "bin", bytes |-> b]

COMPONENT_VALUE == 0
BIN_COMPONENT_LEN == 1
BIN_COMPONENT_OFFSET == 3
LARGE_BIN_COMPONENT_COUNT == 4

\* [u8] Ord: byte-lexicographic
RECURSIVE slice_lt(_, _)
slice_lt(a, b) ==
    IF b = <<>> THEN FALSE
    ELSE IF a = <<>> THEN TRUE
    ELSE IF Head(a) # Head(b) THEN Head(a) < Head(b)
    ELSE slice_lt(Tail(a), Tail(b))

\* T: Ord for the three value kinds (floats holding integers order as the integers)
Ord_lt(a, b) ==
    IF a.kind = "bin" THEN slice_lt(a.bytes, b.bytes) ELSE a.v < b.v

Abs(v) == IF v < 0 THEN 0 - v ELSE v

\* f64::to_le_bytes of the float holding the integer v, |v| < 32: sign, biased
\* exponent and the top fraction bits fill the two highest bytes, the rest is 0
f64_to_le_bytes(v) ==
    IF v = 0 THEN U64_to_le_bytes(U64(0, 0, 0, 0))
    ELSE LET e == CHOOSE k \in 0..4 : 2^k <= Abs(v) /\ Abs(v) < 2^(k + 1)
         IN  U64_to_le_bytes(U64((IF v < 0 THEN 32768 ELSE 0) + (1023 + e) * 16
                                     + (Abs(v) - 2^e) * 2^(4 - e), 0, 0, 0))

get_component_count(x) ==
    IF x.kind = "bin" THEN (IF Len(x.bytes) > 8 THEN 4 ELSE 2) ELSE 1

get_component_name(x, i) ==
    IF x.kind = "int" THEN "int"
    ELSE IF x.kind = "flo" THEN "flo"
    ELSE CASE i = 0 -> "prefix" [] i = 1 -> "len" [] i = 2 -> "hash" [] i = 3 -> "offset"

\* get_component_as_int; components 2 and 3 exist only for slices over 8 bytes
get_component_as_int(x, component) ==
    IF x.kind = "int" THEN I64(x.v < 0, U64(0, 0, 0, Abs(x.v)))
    ELSE IF x.kind = "flo" THEN I64_from_bits(U64_from_le_bytes(f64_to_le_bytes(x.v)))
    ELSE IF component = 0
    THEN LET n == Min(Len(x.bytes), 8)
             buf == [i \in 1..8 |-> IF i <= n THEN x.bytes[i] ELSE 0]
         IN  I64_from_bits(U64_from_be_bytes(buf))
    ELSE I64(FALSE, U64(0, 0, 0, Len(x.bytes)))

\* get_value_as_int: the value component
get_value_as_int(x) == get_component_as_int(x, COMPONENT_VALUE)

(***************************************************************************)
(* The pure encoders: dict_encode (track.rs) and run_end_encode (chunk.rs).*)
(***************************************************************************)
\* inserting a key into the BTreeMap: the keys stay sorted and distinct
RECURSIVE BTreeMap_insert(_, _)
BTreeMap_insert(keys, x) ==
    IF keys = <<>> THEN <<x>>
    ELSE IF x = Head(keys) THEN keys
    ELSE IF x < Head(keys) THEN <<x>> \o keys
    ELSE <<Head(keys)>> \o BTreeMap_insert(Tail(keys), x)

RECURSIVE BTreeMap_collect(_, _)
BTreeMap_collect(keys, vals) ==
    IF vals = <<>> THEN keys
    ELSE BTreeMap_collect(BTreeMap_insert(keys, Head(vals)), Tail(vals))

\* dict_codes_of_keys with a slip: codes are numbered from 1
dict_codes_from_one(keys) == [i \in 1..Len(keys) |-> i % 65536]

\* `*val.1 = i as u16` over dict.iter_mut().enumerate(): the code of the i-th key
dict_codes_of_keys(keys) == [i \in 1..Len(keys) |-> (i - 1) % 65536]

dict_encode(vals) ==
    IF Len(vals) > MaxTrackRowsU16
    THEN [err |-> "track longer than 64k rows", dict |-> <<>>, codes |-> <<>>]
    ELSE
    LET keys == BTreeMap_collect(<<>>, vals)
        code == dict_codes_of_keys(keys)
        found(v) == \E k \in 1..Len(keys) : keys[k] = v
        get(v) == code[CHOOSE k \in 1..Len(keys) : keys[k] = v]
    IN  IF \E i \in 1..Len(vals) : ~found(vals[i])
        THEN [err |-> "dict value not found", dict |-> <<>>, codes |-> <<>>]
        ELSE [err |-> "", dict |-> keys,
              codes |-> [i \in 1..Len(vals) |-> get(vals[i])]]

\* the loop of run_end_encode from row i on (rows are numbered from 0)
RECURSIVE run_end_loop(_, _, _, _, _)
run_end_loop(vals, i, prev, run_vals, run_ends) ==
    IF i = Len(vals) THEN [err |-> "", run_vals |-> run_vals, run_ends |-> run_ends]
    ELSE
    LET val == vals[i + 1]
        last == Len(vals) - 1
        push == i > 0 /\ (prev # val \/ i = last)
    IN  run_end_loop(vals, i + 1, val,
                     IF push THEN Append(run_vals, prev) ELSE run_vals,
                     IF push THEN Append(run_ends, i % 65536) ELSE run_ends)

run_end_encode(vals) ==
    IF Len(vals) = 0 THEN [err |-> "", run_vals |-> <<>>, run_ends |-> <<>>]
    ELSE IF Len(vals) = 1 THEN [err |-> "", run_vals |-> <<vals[1]>>, run_ends |-> <<0>>]
    ELSE IF Len(vals) > MaxTrackRowsU16
    THEN [err |-> "track longer than 64k rows", run_vals |-> <<>>, run_ends |-> <<>>]
    ELSE run_end_loop(vals, 0, vals[1], <<>>, <<>>)

(***************************************************************************)
(* Word-type selection (wordty.rs) for non-negative values.                *)
(***************************************************************************)
RECURSIVE BitOr(_, _)
BitOr(a, b) ==
    IF a = 0 THEN b
    ELSE IF b = 0 THEN a
    ELSE (IF a % 2 = 1 \/ b % 2 = 1 THEN 1 ELSE 0) + 2 * BitOr(a \div 2, b \div 2)

RECURSIVE SeqMin(_, _)
SeqMin(s, dflt) ==
    IF s = <<>> THEN dflt
    ELSE IF Len(s) = 1 THEN s[1]
    ELSE Min(Head(s), SeqMin(Tail(s), dflt))

RECURSIVE FoldOr(_, _, _)
FoldOr(s, min, acc) ==
    IF s = <<>> THEN acc ELSE FoldOr(Tail(s), min, BitOr(acc, Head(s) - min))

WordTy_select_min_and_ty(vals) ==
    LET min == SeqMin(vals, 0)
        accum == FoldOr(vals, min, 0)
        ty == IF accum <= 255 THEN 1
              ELSE IF accum <= 65535 THEN 2
              ELSE 4     \* Word8 needs accum > 0xffff_ffff, beyond the model's values
    IN  [min |-> min, ty |-> ty]

\* a | b on u64
U64_or(a, b) == [k \in 1..4 |-> BitOr(a[k], b[k])]

\* Iterator::min over u64, None for no values
RECURSIVE U64_iter_min(_)
U64_iter_min(s) ==
    IF s = <<>> THEN None
    ELSE LET rest == U64_iter_min(Tail(s))
         IN  IF rest.some /\ U64_lt(rest.val, Head(s)) THEN rest ELSE Some(Head(s))

\* fold(0, |a, x| a | x) over x - min
RECURSIVE U64_fold_or(_, _, _)
U64_fold_or(s, min, a) ==
    IF s = <<>> THEN a
    ELSE U64_fold_or(Tail(s), min, U64_or(a, U64_wrapping_sub(Head(s), min)))

\* the word type is chosen from the values themselves, not their offsets from min
WordTy_select_ty_of_values(vals) ==
    LET us == [i \in 1..Len(vals) |-> as_u64(vals[i])]
        m == U64_iter_min(us)
        min == IF m.some THEN m.val ELSE U64(0, 0, 0, 0)
        accum == U64_fold_or(us, U64(0, 0, 0, 0), U64(0, 0, 0, 0))
        ty == IF accum[1] = 0 /\ accum[2] = 0 /\ accum[3] = 0 /\ accum[4] <= 255 THEN 1
              ELSE IF accum[1] = 0 /\ accum[2] = 0 /\ accum[3] = 0 THEN 2
              ELSE IF accum[1] = 0 /\ accum[2] = 0 THEN 4
              ELSE 8
    IN  [min |-> min, ty |-> ty]

\* WordTy::select_min_and_ty on i64 values of any size
WordTy_select_min_and_ty_u64(vals) ==
    LET us == [i \in 1..Len(vals) |-> as_u64(vals[i])]
        m == U64_iter_min(us)
        min == IF m.some THEN m.val ELSE U64(0, 0, 0, 0)
        accum == U64_fold_or(us, min, U64(0, 0, 0, 0))
        ty == IF accum[1] = 0 /\ accum[2] = 0 /\ accum[3] = 0 /\ accum[4] <= 255 THEN 1
              ELSE IF accum[1] = 0 /\ accum[2] = 0 /\ accum[3] = 0 THEN 2
              ELSE IF accum[1] = 0 /\ accum[2] = 0 THEN 4
              ELSE 8
    IN  [min |-> min, ty |-> ty]

\* write_annotated_le_wordty_slice: the low wordty.len() bytes of every value
write_annotated_le_wordty_slice(w, vals, wordty) ==
    annotate_to_pos_from(
        write_all(w, le_slice_bytes(vals, WordTy_len(wordty))),
        "word" \o ToString(wordty) \o "s", w.pos)

\* write_be_lane_of_annotated_num_slice for u16 values: byte `lane` of to_be_bytes
write_be_lane_of_annotated_num_slice(w, name, lane, vals) ==
    annotate_to_pos_from(
        write_all(w, [i \in 1..Len(vals) |-> to_be_bytes_u16(vals[i])[lane + 1]]),
        name, w.pos)

\* the k-th (from 0) of s.chunks(n)
Chunk(s, n, k) == SubSeq(s, k * n + 1, Min(Len(s), (k + 1) * n))
NChunks(s, n) == (Len(s) + n - 1) \div n

(***************************************************************************)
(* TrackMeta, chunk writers and TrackWriter (track.rs, chunk.rs).          *)
(***************************************************************************)
TrackMeta_default ==
    [code_chunk_populated |-> Bitmap256_new,
     dict_entry_count |-> 0,
     dict_val_chunk_tys |-> WordTy256_default,
     dict_bin_len_chunk_tys |-> WordTy256_default,
     dict_bin_large |-> Bitmap256_new,
     dict_bin_off_tys |-> WordTy256_default,
     code_chunk_two_bytes |-> Bitmap256_new,
     code_chunk_run_coded |-> Bitmap256_new,
     code_chunk_mins |-> <<>>,
     code_chunk_maxs |-> <<>>]

TrackWriter_new(track_num, w) ==
    IF track_num > MaxTrackNum
    THEN [err |-> "track count > 255", wr |-> w, meta |-> TrackMeta_default,
          info |-> [track_num |-> 0, lo_val |-> 0, hi_val |-> 0, implicit |-> FALSE,
                    rows |-> 0, end_pos |-> 0]]
    ELSE [err |-> "",
          wr |-> push_context(push_context(w, "track"), ToString(track_num)),
          meta |-> TrackMeta_default,
          info |-> [track_num |-> track_num, lo_val |-> 0, hi_val |-> 0,
                    implicit |-> FALSE, rows |-> 0, end_pos |-> 0]]

\* DictEntryChunkMeta::default(): no word type chosen yet (0 stands for None)
DictEntryChunkMeta_default ==
    [any_bin_large |-> FALSE, val_ty |-> 0, bin_len_ty |-> 0, bin_off_ty |-> 0]

\* DictEntryChunkWriter::write_dict_encoded for i64 values: one component, the value
DictEntryChunkWriter_write_dict_encoded(vals, w) ==
    LET selected(sel) ==
            [wr |-> write_annotated_le_wordty_slice(w, vals, sel.ty),
             meta |-> [DictEntryChunkMeta_default EXCEPT !.val_ty = sel.ty]]
    IN  selected(WordTy_select_min_and_ty(vals))

\* dict_entry_count is a u16: += 256 overflows at 0xff00, a panic in a build with
\* overflow checks and a wrap to 0 without them
TrackWriter_note_dict_entry_chunk_finished(meta, cmeta, checked) ==
    LET chunk_num == meta.dict_entry_count \div 256
    IN  IF chunk_num > 255 THEN [err |-> "code chunk num > 255", meta |-> meta]
        ELSE IF meta.dict_entry_count + 256 > 65535 /\ checked
        THEN [err |-> "panic: attempt to add with overflow", meta |-> meta]
        ELSE [err |-> "",
              meta |-> [meta EXCEPT
                  !.dict_entry_count = (@ + 256) % 65536,
                  !.dict_val_chunk_tys =
                      IF cmeta.val_ty # 0
                      THEN WordTy256_set_word_ty(@, chunk_num, cmeta.val_ty) ELSE @,
                  !.dict_bin_len_chunk_tys =
                      IF cmeta.bin_len_ty # 0
                      THEN WordTy256_set_word_ty(@, chunk_num, cmeta.bin_len_ty) ELSE @,
                  !.dict_bin_off_tys =
                      IF cmeta.bin_off_ty # 0
                      THEN WordTy256_set_word_ty(@, chunk_num, cmeta.bin_off_ty) ELSE @,
                  !.dict_bin_large = IF cmeta.any_bin_large
                                     THEN Bitmap256_set(@, chunk_num, TRUE) ELSE @]]

write_one_or_two_byte_dict_code_chunk(vals, any_two_bytes, w) ==
    LET w0 == push_context(w, "code_lanes")
        w1 == IF any_two_bytes
              THEN write_be_lane_of_annotated_num_slice(w0, "hi_lane", 0, vals)
              ELSE w0
        w2 == write_be_lane_of_annotated_num_slice(w1, "lo_lane", 1, vals)
    IN  pop_context(w2)

RECURSIVE SeqMax(_, _)
SeqMax(s, dflt) == IF s = <<>> THEN dflt ELSE Max(Head(s), SeqMax(Tail(s), dflt))

\* DictCodeChunkWriter::write_dict_codes on a fresh chunk writer
DictCodeChunkWriter_write_dict_codes(vals, w) ==
    LET two_bytes == \E i \in 1..Len(vals) : vals[i] > 255
        min_dict_code == SeqMin(vals, 65535)
        max_dict_code == SeqMax(vals, 0)
        ree == run_end_encode(vals)
        chunk_code_width == IF two_bytes THEN 2 ELSE 1
        run_end_encoded_len == Len(ree.run_ends) * (chunk_code_width + 2)
        simple_encoded_len == Len(vals) * chunk_code_width
        run_coded == run_end_encoded_len < simple_encoded_len
        cmeta == [two_bytes |-> two_bytes, run_coded |-> run_coded,
                  min_dict_code |-> min_dict_code, max_dict_code |-> max_dict_code]
    IN  IF ree.err # "" THEN [err |-> ree.err, wr |-> w, meta |-> cmeta]
        ELSE IF run_coded
        THEN [err |-> "",
              wr |-> write_annotated_le_num_slice(
                         write_one_or_two_byte_dict_code_chunk(ree.run_vals, two_bytes, w),
                         "run_ends", ree.run_ends, 2),
              meta |-> cmeta]
        ELSE [err |-> "",
              wr |-> write_one_or_two_byte_dict_code_chunk(vals, two_bytes, w),
              meta |-> cmeta]

\* the chunk number goes to `as u8` without the test against 255
TrackWriter_note_dict_code_chunk_finished_unchecked(meta, cmeta) ==
    LET chunk_num == Len(meta.code_chunk_maxs) % 256
    IN  [err |-> "",
         meta |-> [meta EXCEPT
             !.code_chunk_populated = Bitmap256_set(@, chunk_num, TRUE),
             !.code_chunk_two_bytes = Bitmap256_set(@, chunk_num, cmeta.two_bytes),
             !.code_chunk_run_coded = Bitmap256_set(@, chunk_num, cmeta.run_coded),
             !.code_chunk_mins = Append(@, cmeta.min_dict_code),
             !.code_chunk_maxs = Append(@, cmeta.max_dict_code)]]

TrackWriter_note_dict_code_chunk_finished(meta, cmeta) ==
    LET chunk_num == Len(meta.code_chunk_maxs)
    IN  IF chunk_num > 255 THEN [err |-> "code chunk num > 255", meta |-> meta]
        ELSE [err |-> "",
              meta |-> [meta EXCEPT
                  !.code_chunk_populated = Bitmap256_set(@, chunk_num, TRUE),
                  !.code_chunk_two_bytes = Bitmap256_set(@, chunk_num, cmeta.two_bytes),
                  !.code_chunk_run_coded = Bitmap256_set(@, chunk_num, cmeta.run_coded),
                  !.code_chunk_mins = Append(@, cmeta.min_dict_code),
                  !.code_chunk_maxs = Append(@, cmeta.max_dict_code)]]

\* `for (chunk_num, chunk) in dict.chunks(256).enumerate()` from chunk k on
RECURSIVE dict_entry_chunks_loop(_, _, _, _)
dict_entry_chunks_loop(dict, k, meta, w) ==
    IF k >= NChunks(dict, ChunkLen) THEN [err |-> "", meta |-> meta, wr |-> w]
    ELSE
    LET noted(c, n) ==
            IF n.err # "" THEN [err |-> n.err, meta |-> meta, wr |-> c.wr]
            ELSE dict_entry_chunks_loop(dict, k + 1, n.meta, pop_context(c.wr))
        written(c) ==
            noted(c, TrackWriter_note_dict_entry_chunk_finished(meta, c.meta, w.test))
    IN  written(DictEntryChunkWriter_write_dict_encoded(
                    Chunk(dict, ChunkLen, k), push_context(w, ToString(k))))

\* `for (chunk_num, chunk) in codes.chunks(256).enumerate()` from chunk k on
RECURSIVE dict_code_chunks_loop(_, _, _, _)
dict_code_chunks_loop(codes, k, meta, w) ==
    IF k >= NChunks(codes, ChunkLen) THEN [err |-> "", meta |-> meta, wr |-> w]
    ELSE
    LET noted(c, n) ==
            IF n.err # "" THEN [err |-> n.err, meta |-> meta, wr |-> c.wr]
            ELSE dict_code_chunks_loop(codes, k + 1, n.meta, pop_context(c.wr))
        written(c) ==
            IF c.err # "" THEN [err |-> c.err, meta |-> meta, wr |-> c.wr]
            ELSE noted(c, TrackWriter_note_dict_code_chunk_finished(meta, c.meta))
    IN  written(DictCodeChunkWriter_write_dict_codes(
                    Chunk(codes, ChunkLen, k), push_context(w, ToString(k))))

\* TrackWriter::write_dict_encoded for i64 values (the heap stays empty)
TrackWriter_write_dict_encoded(t, vals, w) ==
    IF Len(vals) > MaxTrackRowsU16
    THEN [err |-> "track longer than 64k rows", meta |-> t.meta, info |-> t.info, wr |-> w]
    ELSE
    LET info0 == [t.info EXCEPT !.rows = Len(vals), !.implicit = FALSE]
    IN  IF Len(vals) = 0 THEN [err |-> "", meta |-> t.meta, info |-> info0, wr |-> w]
        ELSE
        LET info1(dict) == [info0 EXCEPT !.lo_val = dict[1], !.hi_val = dict[Len(dict)]]
            codes_done(de, c) ==
                IF c.err # ""
                THEN [err |-> c.err, meta |-> c.meta, info |-> info1(de.dict), wr |-> c.wr]
                ELSE [err |-> "", meta |-> c.meta, info |-> info1(de.dict),
                      wr |-> pop_context(c.wr)]
            entries_done(de, e) ==
                IF e.err # ""
                THEN [err |-> e.err, meta |-> e.meta, info |-> info1(de.dict), wr |-> e.wr]
                ELSE codes_done(de, dict_code_chunks_loop(de.codes, 0, e.meta,
                                    push_context(pop_context(e.wr), "dict_code_chunks")))
            encoded(de) ==
                IF de.err # ""
                THEN [err |-> de.err, meta |-> t.meta, info |-> info0, wr |-> w]
                ELSE entries_done(de, dict_entry_chunks_loop(de.dict, 0, t.meta,
                         write_annotated_le_num(push_context(w, "dict_entry_chunks"),
                                                "len", Len(de.dict) % 65536, 2)))
        IN  encoded(dict_encode(vals))

(***************************************************************************)
(* The track writer over the three value types of DictEncodable, with the  *)
(* i64 of every component at full width.                                   *)
(***************************************************************************)
\* inserting a key into the BTreeMap<&T, u16>, ordered by T: Ord
RECURSIVE BTreeMap_insert_T(_, _)
BTreeMap_insert_T(keys, x) ==
    IF keys = <<>> THEN <<x>>
    ELSE IF x = Head(keys) THEN keys
    ELSE IF Ord_lt(x, Head(keys)) THEN <<x>> \o keys
    ELSE <<Head(keys)>> \o BTreeMap_insert_T(Tail(keys), x)

RECURSIVE BTreeMap_collect_T(_, _)
BTreeMap_collect_T(keys, vals) ==
    IF vals = <<>> THEN keys
    ELSE BTreeMap_collect_T(BTreeMap_insert_T(keys, Head(vals)), Tail(vals))

dict_encode_T(vals) ==
    IF Len(vals) > MaxTrackRowsU16
    THEN [err |-> "track longer than 64k rows", dict |-> <<>>, codes |-> <<>>]
    ELSE
    LET keys == BTreeMap_collect_T(<<>>, vals)
        code == dict_codes_of_keys(keys)
        found(v) == \E k \in 1..Len(keys) : keys[k] = v
        get(v) == code[CHOOSE k \in 1..Len(keys) : keys[k] = v]
    IN  IF \E i \in 1..Len(vals) : ~found(vals[i])
        THEN [err |-> "dict value not found", dict |-> <<>>, codes |-> <<>>]
        ELSE [err |-> "", dict |-> keys,
              codes |-> [i \in 1..Len(vals) |-> get(vals[i])]]

\* write_annotated_le_wordty_slice: the low wordty.len() of the 8 bytes of every i64
write_annotated_le_wordty_slice_T(w, vals, wordty) ==
    LET N == WordTy_len(wordty)
    IN  annotate_to_pos_from(
            write_all(w, [j \in 1..(Len(vals) * N) |->
                U64_to_le_bytes(as_u64(vals[((j - 1) \div N) + 1]))[((j - 1) % N) + 1]]),
            "word" \o ToString(wordty) \o "s", w.pos)

\* `for component in 0..n_components` of DictEntryChunkWriter::write_dict_encoded
RECURSIVE dict_entry_components_loop(_, _, _, _, _)
dict_entry_components_loop(vals, component, n_components, meta, w) ==
    IF component >= n_components THEN [wr |-> w, meta |-> meta]
    ELSE
    LET named(w0) ==
            IF n_components > 1
            THEN push_context(w0, get_component_name(vals[1], component))
            ELSE w0
        unnamed(w1) == IF n_components > 1 THEN pop_context(w1) ELSE w1
        selected(ints, sel) ==
            dict_entry_components_loop(vals, component + 1, n_components,
                IF component = COMPONENT_VALUE THEN [meta EXCEPT !.val_ty = sel.ty]
                ELSE IF component = BIN_COMPONENT_LEN THEN [meta EXCEPT !.bin_len_ty = sel.ty]
                ELSE IF component = BIN_COMPONENT_OFFSET THEN [meta EXCEPT !.bin_off_ty = sel.ty]
                ELSE meta,
                unnamed(write_annotated_le_wordty_slice_T(named(w), ints, sel.ty)))
        collected(ints) == selected(ints, WordTy_select_min_and_ty_u64(ints))
    IN  collected([i \in 1..Len(vals) |-> get_component_as_int(vals[i], component)])

DictEntryChunkWriter_write_dict_encoded_T(vals, w) ==
    LET counts == {get_component_count(vals[i]) : i \in 1..Len(vals)}
        n_components == IF counts = {} THEN 1
                        ELSE CHOOSE n \in counts : \A m \in counts : m <= n
    IN  dict_entry_components_loop(vals, 0, n_components,
            [DictEntryChunkMeta_default EXCEPT
                 !.any_bin_large = (n_components = LARGE_BIN_COMPONENT_COUNT)],
            w)

\* `for (chunk_num, chunk) in dict.chunks(256).enumerate()` from chunk k on
RECURSIVE dict_entry_chunks_loop_T(_, _, _, _)
dict_entry_chunks_loop_T(dict, k, meta, w) ==
    IF k >= NChunks(dict, ChunkLen) THEN [err |-> "", meta |-> meta, wr |-> w]
    ELSE
    LET noted(c, n) ==
            IF n.err # "" THEN [err |-> n.err, meta |-> meta, wr |-> c.wr]
            ELSE dict_entry_chunks_loop_T(dict, k + 1, n.meta, pop_context(c.wr))
        written(c) ==
            noted(c, TrackWriter_note_dict_entry_chunk_finished(meta, c.meta, w.test))
    IN  written(DictEntryChunkWriter_write_dict_encoded_T(
                    Chunk(dict, ChunkLen, k), push_context(w, ToString(k))))

\* TrackWriter::write_dict_encoded<T> (the heap stays empty: no slice over 8 bytes)
TrackWriter_write_dict_encoded_T(t, vals, w) ==
    IF Len(vals) > MaxTrackRowsU16
    THEN [err |-> "track longer than 64k rows", meta |-> t.meta, info |-> t.info, wr |-> w]
    ELSE
    LET info0 == [t.info EXCEPT !.rows = Len(vals), !.implicit = FALSE]
    IN  IF Len(vals) = 0 THEN [err |-> "", meta |-> t.meta, info |-> info0, wr |-> w]
        ELSE
        LET info1(dict) == [info0 EXCEPT !.lo_val = get_value_as_int(dict[1]),
                                         !.hi_val = get_value_as_int(dict[Len(dict)])]
            codes_done(de, c) ==
                IF c.err # ""
                THEN [err |-> c.err, meta |-> c.meta, info |-> info1(de.dict), wr |-> c.wr]
                ELSE [err |-> "", meta |-> c.meta, info |-> info1(de.dict),
                      wr |-> pop_context(c.wr)]
            entries_done(de, e) ==
                IF e.err # ""
                THEN [err |-> e.err, meta |-> e.meta, info |-> info1(de.dict), wr |-> e.wr]
                ELSE codes_done(de, dict_code_chunks_loop(de.codes, 0, e.meta,
                                    push_context(pop_context(e.wr), "dict_code_chunks")))
            encoded(de) ==
                IF de.err # ""
                THEN [err |-> de.err, meta |-> t.meta, info |-> info0, wr |-> w]
                ELSE entries_done(de, dict_entry_chunks_loop_T(de.dict, 0, t.meta,
                         write_annotated_le_num(push_context(w, "dict_entry_chunks"),
                                                "len", Len(de.dict) % 65536, 2)))
        IN  encoded(dict_encode_T(vals))

TrackMeta_write(meta, w) ==
    IF Len(meta.code_chunk_mins) # Len(meta.code_chunk_maxs)
    THEN [err |-> "min/max dict code mismatch", wr |-> w]
    ELSE IF Len(meta.code_chunk_mins) # Bitmap256_count(meta.code_chunk_populated)
    THEN [err |-> "dict code populated-bitset count mismatch", wr |-> w]
    ELSE
    LET w0 == push_context(w, "meta")
        start_pos == w.pos
        w1 == Bitmap256_write_annotated(meta.code_chunk_populated, "code_chunk_populated", w0)
        w2 == write_annotated_le_num(w1, "dict_entry_count", meta.dict_entry_count, 2)
        w3 == WordTy256_write_annotated(meta.dict_val_chunk_tys, "dict_val_chunk_tys", w2)
        w4 == WordTy256_write_annotated(meta.dict_bin_len_chunk_tys,
                                        "dict_bin_len_chunk_tys", w3)
        w5 == Bitmap256_write_annotated(meta.dict_bin_large, "dict_bin_large", w4)
        off_tys(x) == IF Bitmap256_any(meta.dict_bin_large)
                      THEN WordTy256_write_annotated(meta.dict_bin_off_tys,
                                                     "dict_off_tys", x)
                      ELSE x
        w6 == off_tys(w5)
        w7 == Bitmap256_write_annotated(meta.code_chunk_two_bytes, "code_chunk_two_bytes", w6)
        w8 == Bitmap256_write_annotated(meta.code_chunk_run_coded, "code_chunk_run_coded", w7)
        w9 == write_annotated_le_num_slice(w8, "chunk_min_dict_codes", meta.code_chunk_mins, 2)
        w10 == write_annotated_le_num_slice(w9, "chunk_max_dict_codes", meta.code_chunk_maxs, 2)
        w11 == write_len_of_footer_starting_at(w10, start_pos)
    IN  [err |-> "", wr |-> pop_context(w11)]

\* finish_track with the second pop_context left out
TrackWriter_finish_track_one_pop(t, w) ==
    LET done(m) ==
            IF m.err # "" THEN [err |-> m.err, wr |-> m.wr, info |-> t.info]
            ELSE [err |-> "", wr |-> pop_context(m.wr),
                  info |-> [t.info EXCEPT !.end_pos = m.wr.pos]]
    IN  done(TrackMeta_write(t.meta, w))

TrackWriter_finish_track(t, w) ==
    LET done(m) ==
            IF m.err # "" THEN [err |-> m.err, wr |-> m.wr, info |-> t.info]
            ELSE [err |-> "", wr |-> pop_context(pop_context(m.wr)),
                  info |-> [t.info EXCEPT !.end_pos = m.wr.pos]]
    IN  done(TrackMeta_write(t.meta, w))

(***************************************************************************)
(* MemReader, the Reader trait (ioutil.rs) and LayerReader (layer.rs).     *)
(* An outcome is [status, msg, meta, alloc]: status is ok (a reader is     *)
(* returned), err (an Err is returned), panic or abort; alloc tells        *)
(* whether the block_end_offsets vector was asked for.                     *)
(***************************************************************************)
MemReader_new(mem) == [mem |-> mem, pos |-> 0]

NoMeta == [vers |-> 0, rows |-> 0, cols |-> 0, block_end_offsets |-> <<>>]
Outcome(status, msg, meta, alloc) ==
    [status |-> status, msg |-> msg, meta |-> meta, alloc |-> alloc]
Failed(msg) == Outcome("err", msg, NoMeta, FALSE)

\* Read::read_exact on a Cursor
read_exact(r, n) ==
    IF r.pos + n <= r.mem.len
    THEN [err |-> "", buf |-> Vec_slice(r.mem, r.pos + 1, r.pos + n),
          rd |-> [r EXCEPT !.pos = @ + n]]
    ELSE [err |-> "failed to fill whole buffer", buf |-> <<>>, rd |-> r]

\* Seek::seek on a Cursor, to the absolute position it resolves to
seek_to(r, target) ==
    IF target < 0
    THEN [err |-> "invalid seek to a negative or overflowing position", rd |-> r]
    ELSE [err |-> "", rd |-> [r EXCEPT !.pos = target]]

read_le_num(r) ==
    LET x == read_exact(r, 8)
    IN  [err |-> x.err, val |-> IF x.err = "" THEN from_le_bytes(x.buf) ELSE 0, rd |-> x.rd]

read_footer_len_and_rewind_to_start(r) ==
    LET n == read_le_num(r)
    IN  IF n.err # "" THEN [err |-> n.err, rd |-> r]
        ELSE IF n.val < 0 THEN [err |-> "negative footer len", rd |-> r]
        ELSE seek_to(n.rd, n.rd.pos + (0 - n.val) - 8)

\* seek to end_pos - 8, then read the length and rewind over the footer
read_footer_len_ending_at_pos_and_rewind_to_start(r, end_pos) ==
    LET s == seek_to(r, end_pos - 8)
    IN  IF s.err # "" THEN s ELSE read_footer_len_and_rewind_to_start(s.rd)

\* LayerMeta_read_and_check_magic_header with a slip: the buffer is not compared
LayerMeta_read_magic_header_unchecked(r) ==
    LET x == read_exact([r EXCEPT !.pos = 0], 8)
    IN  IF x.err # "" THEN [err |-> x.err, rd |-> r]
        ELSE [err |-> "", rd |-> x.rd]

LayerMeta_read_and_check_magic_header(r) ==
    LET x == read_exact([r EXCEPT !.pos = 0], 8)
    IN  IF x.err # "" THEN [err |-> x.err, rd |-> r]
        ELSE IF x.buf # MAGIC THEN [err |-> "bad magic number", rd |-> r]
        ELSE [err |-> "", rd |-> x.rd]

\* whether `ublocks as i64 != blocks` can be false after `blocks as usize`
usize_cast_keeps(blocks, pw) ==
    IF pw = 64 THEN {TRUE}                    \* the two casts undo each other
    ELSE IF blocks = HugePos THEN {TRUE, FALSE}   \* TRUE below 2^32
    ELSE {blocks >= 0}

\* `vec![0_i64; ublocks]` and read_le_num_slice into it
LayerMeta_read_offsets(r, vers, rows, cols, blocks, pw) ==
    LET eof == Outcome("err", "failed to fill whole buffer", NoMeta, TRUE)
        overflow == Outcome("panic", "capacity overflow", NoMeta, TRUE)
        oom == Outcome("abort", "memory allocation failed", NoMeta, TRUE)
    IN  IF blocks < 0 THEN {overflow}            \* ublocks >= 2^63: 8 * ublocks > isize::MAX
        ELSE IF blocks = HugePos
        THEN IF pw = 32 THEN {overflow} ELSE {overflow, oom, eof}
        ELSE IF pw = 32 /\ blocks >= 268435456 THEN {overflow}
        ELSE IF blocks >= 134217728 THEN {oom, eof}      \* a gigabyte or more
        ELSE IF blocks > r.mem.len THEN {eof}
        ELSE IF r.pos + 8 * blocks > r.mem.len THEN {eof}
        ELSE {Outcome("ok", "",
                      [vers |-> vers, rows |-> rows, cols |-> cols,
                       block_end_offsets |->
                           [i \in 1..blocks |->
                               from_le_bytes(Vec_slice(r.mem, r.pos + 8 * i - 7, r.pos + 8 * i))]],
                      TRUE)}

LayerMeta_read(r, pw) ==
    LET v == read_le_num(r)
        ro == read_le_num(v.rd)
        co == read_le_num(ro.rd)
        bl == read_le_num(co.rd)
    IN  IF v.err # "" THEN {Failed(v.err)}
        ELSE IF v.val > VERS THEN {Failed("unsupported future version number")}
        ELSE IF ro.err # "" THEN {Failed(ro.err)}
        ELSE IF co.err # "" THEN {Failed(co.err)}
        ELSE IF bl.err # "" THEN {Failed(bl.err)}
        ELSE UNION {IF keeps
                    THEN LayerMeta_read_offsets(bl.rd, v.val, ro.val, co.val, bl.val, pw)
                    ELSE {Failed("bad block count")}
                    : keeps \in usize_cast_keeps(bl.val, pw)}

LayerReader_new(mem, pw) ==
    LET m == LayerMeta_read_and_check_magic_header(MemReader_new(mem))
        end_pos == mem.len
        f == read_footer_len_ending_at_pos_and_rewind_to_start(
                 [mem |-> mem, pos |-> end_pos], end_pos)
    IN  IF m.err # "" THEN {Failed(m.err)}
        ELSE IF f.err # "" THEN {Failed(f.err)}
        ELSE LayerMeta_read(f.rd, pw)

(***************************************************************************)
(* Reading a TrackMeta back (track.rs, ioutil.rs).                         *)
(***************************************************************************)
\* Bitmap256::read: four u64, little-endian, into bits
Bitmap256_read(r) ==
    LET x == read_exact(r, 32)
    IN  IF x.err # "" THEN [err |-> x.err, val |-> Bitmap256_new, rd |-> r]
        ELSE [err |-> "",
              val |-> {i \in 0..255 : (x.buf[(i \div 8) + 1] \div 2 ^ (i % 8)) % 2 = 1},
              rd |-> x.rd]

\* WordTy256::read: the two bitmaps in the order write_annotated puts them, lo then hi
WordTy256_read(r) ==
    LET lo == Bitmap256_read(r)
        hi == Bitmap256_read(lo.rd)
    IN  IF lo.err # "" THEN [err |-> lo.err, val |-> WordTy256_default, rd |-> r]
        ELSE IF hi.err # "" THEN [err |-> hi.err, val |-> WordTy256_default, rd |-> r]
        ELSE [err |-> "", val |-> [hi |-> hi.val, lo |-> lo.val], rd |-> hi.rd]

\* Reader::read_le_num_vec::<u16>: n little-endian u16
read_le_num_vec(r, n) ==
    LET x == read_exact(r, 2 * n)
    IN  IF x.err # "" THEN [err |-> x.err, val |-> <<>>, rd |-> r]
        ELSE [err |-> "",
              val |-> [i \in 1..n |-> x.buf[2 * i - 1] + 256 * x.buf[2 * i]],
              rd |-> x.rd]

\* TrackMeta::read_from_footer_end: no read of dict_entry_count
TrackMeta_read_from_footer_end(r, end_pos) ==
    LET f == read_footer_len_ending_at_pos_and_rewind_to_start(r, end_pos)
        pop == Bitmap256_read(f.rd)
        val == WordTy256_read(pop.rd)
        len == WordTy256_read(val.rd)
        large == Bitmap256_read(len.rd)
        off == IF large.err = "" /\ Bitmap256_any(large.val)
               THEN WordTy256_read(large.rd)
               ELSE [err |-> "", val |-> WordTy256_default, rd |-> large.rd]
        two == Bitmap256_read(off.rd)
        run == Bitmap256_read(two.rd)
        n_code_chunks == Bitmap256_count(pop.val)
        mins == read_le_num_vec(run.rd, n_code_chunks)
        maxs == read_le_num_vec(mins.rd, n_code_chunks)
        errs == <<f.err, pop.err, val.err, len.err, large.err, off.err, two.err, run.err,
                  mins.err, maxs.err>>
    IN  IF \E k \in 1..Len(errs) : errs[k] # ""
        THEN [err |-> errs[CHOOSE k \in 1..Len(errs) :
                               errs[k] # "" /\ \A j \in 1..(k - 1) : errs[j] = ""],
              meta |-> TrackMeta_default]
        ELSE [err |-> "",
              meta |-> [TrackMeta_default EXCEPT
                        !.code_chunk_populated = pop.val,
                        !.dict_val_chunk_tys = val.val,
                        !.dict_bin_len_chunk_tys = len.val,
                        !.dict_bin_large = large.val,
                        !.dict_bin_off_tys = off.val,
                        !.code_chunk_two_bytes = two.val,
                        !.code_chunk_run_coded = run.val,
                        !.code_chunk_mins = mins.val,
                        !.code_chunk_maxs = maxs.val]]

(***************************************************************************)
(* TrackMap (track.rs): chunk offsets computed from a TrackMeta.           *)
(***************************************************************************)
WordTy256_get_word_ty(t, i) ==
    IF Bitmap256_get(t.hi, i)
    THEN (IF Bitmap256_get(t.lo, i) THEN 8 ELSE 4)
    ELSE (IF Bitmap256_get(t.lo, i) THEN 2 ELSE 1)

\* the first loop of TrackMap::new from chunk i on
RECURSIVE TrackMap_dict_loop(_, _, _, _, _, _)
TrackMap_dict_loop(meta, is_bin, i, off, dict_entry_count, dict_chunk_offsets) ==
    IF i > 255 THEN [off |-> off, dict_chunk_offsets |-> dict_chunk_offsets]
    ELSE
    LET n_chunk_entries == Min(dict_entry_count, 256)
        pushed == Append(dict_chunk_offsets, off)
        chunk_len ==
            n_chunk_entries * WordTy_len(WordTy256_get_word_ty(meta.dict_val_chunk_tys, i))
            + (IF is_bin
               THEN n_chunk_entries
                        * WordTy_len(WordTy256_get_word_ty(meta.dict_bin_len_chunk_tys, i))
                    + (IF Bitmap256_get(meta.dict_bin_large, i)
                       THEN n_chunk_entries
                            * WordTy_len(WordTy256_get_word_ty(meta.dict_bin_off_tys, i))
                       ELSE 0)
               ELSE 0)
    IN  IF n_chunk_entries < 256
        THEN [off |-> off + chunk_len, dict_chunk_offsets |-> pushed]
        ELSE TrackMap_dict_loop(meta, is_bin, i + 1, off + chunk_len,
                                dict_entry_count - 256, pushed)

\* the second loop of TrackMap::new from chunk i on
RECURSIVE TrackMap_code_loop(_, _, _, _, _)
TrackMap_code_loop(meta, i, off, total_codes, code_chunk_offsets) ==
    IF i > 255 THEN [off |-> off, code_chunk_offsets |-> code_chunk_offsets]
    ELSE
    LET n_chunk_codes == Min(total_codes, 256)
        chunk_len == (IF Bitmap256_get(meta.code_chunk_two_bytes, i) THEN n_chunk_codes ELSE 0)
                     + (IF Bitmap256_get(meta.code_chunk_run_coded, i) THEN n_chunk_codes ELSE 0)
    IN  IF ~Bitmap256_get(meta.code_chunk_populated, i)
        THEN TrackMap_code_loop(meta, i + 1, off, total_codes,
                                Append(code_chunk_offsets, None))
        ELSE IF n_chunk_codes < 256
        THEN [off |-> off + chunk_len,
              code_chunk_offsets |-> Append(code_chunk_offsets, Some(off))]
        ELSE TrackMap_code_loop(meta, i + 1, off + chunk_len, total_codes - 256,
                                Append(code_chunk_offsets, Some(off)))

TrackMap_new(meta, is_bin) ==
    LET coded(d, c) == [dict_chunk_offsets |-> d.dict_chunk_offsets,
                        code_chunk_offsets |-> c.code_chunk_offsets,
                        heap_offset |-> c.off]
        dicted(d) == coded(d, TrackMap_code_loop(meta, 0, d.off,
                                   Bitmap256_count(meta.code_chunk_populated), <<>>))
    IN  dicted(TrackMap_dict_loop(meta, is_bin, 0, 0, meta.dict_entry_count, <<>>))

(***************************************************************************)
(* State machine.                                                          *)
(***************************************************************************)
NoBlock == [meta |-> BlockMeta_default, info |-> [block_num |-> 0, end_pos |-> 0]]
NoTrack == [meta |-> TrackMeta_default,
            info |-> [track_num |-> 0, lo_val |-> 0, hi_val |-> 0, implicit |-> FALSE,
                      rows |-> 0, end_pos |-> 0]]
NoReader == [content |-> Vec_new, corrupted |-> 0, pw |-> 0, opened |-> FALSE,
             outcome |-> Failed("")]
NoCall == [fn |-> "", arg |-> <<>>, ret |-> <<>>]
Res(op, err) == [op |-> op, err |-> err]

\* the values write_dict_encoded is given in Spec: the empty track, a plain-coded
\* chunk, a run-coded chunk
TrackInputs == {<<>>, <<5, 5, 6>>, <<6, 5, 5, 5, 5, 5, 5>>}

(***************************************************************************)
(* Bitmap256 (submerge-base/src/bitmap256.rs): bits: [u64; 4], bit i is    *)
(* bit i % 64 of word i / 64; words are counted from 1 here. The _w names   *)
(* are the word-level operations, next to the set-of-bits ones above.      *)
(***************************************************************************)
WordBits == 64
Bitmap256_words == 4

RECURSIVE BitAnd(_, _)
BitAnd(a, b) ==
    IF a = 0 \/ b = 0 THEN 0
    ELSE (IF a % 2 = 1 /\ b % 2 = 1 THEN 1 ELSE 0) + 2 * BitAnd(a \div 2, b \div 2)

RECURSIVE BitCount(_)
BitCount(a) == IF a = 0 THEN 0 ELSE (a % 2) + BitCount(a \div 2)

U64_ZERO == U64(0, 0, 0, 0)
U64_MAX == U64(Limb - 1, Limb - 1, Limb - 1, Limb - 1)
\* a & b, !a and count_ones on u64
U64_and(a, b) == [k \in 1..4 |-> BitAnd(a[k], b[k])]
U64_not(a) == [k \in 1..4 |-> Limb - 1 - a[k]]
U64_count_ones(a) == BitCount(a[1]) + BitCount(a[2]) + BitCount(a[3]) + BitCount(a[4])
\* 1 << n on u64, for n in 0..63
U64_one_shl(n) == [k \in 1..4 |-> IF 4 - k = n \div 16 THEN 2 ^ (n % 16) ELSE 0]
\* u64::MAX >> n, for n in 0..63: the low 64 - n bits
U64_MAX_shr(n) ==
    [k \in 1..4 |->
        LET lo == 16 * (4 - k)
        IN  IF WordBits - n >= lo + 16 THEN Limb - 1
            ELSE IF WordBits - n <= lo THEN 0
            ELSE 2 ^ (WordBits - n - lo) - 1]

Bitmap256_new_w == [bits |-> [w \in 1..Bitmap256_words |-> U64_ZERO]]

Bitmap256_set_w(b, i, val) ==
    IF val
    THEN [b EXCEPT !.bits[i \div WordBits + 1] = U64_or(@, U64_one_shl(i % WordBits))]
    ELSE [b EXCEPT !.bits[i \div WordBits + 1] =
                        U64_and(@, U64_not(U64_one_shl(i % WordBits)))]

Bitmap256_get_w(b, i) ==
    U64_and(b.bits[i \div WordBits + 1], U64_one_shl(i % WordBits)) # U64_ZERO

Bitmap256_set_all(b) == [b EXCEPT !.bits = [w \in 1..Bitmap256_words |-> U64_MAX]]
Bitmap256_clear_all(b) == [b EXCEPT !.bits = [w \in 1..Bitmap256_words |-> U64_ZERO]]

RECURSIVE Bitmap256_count_from(_, _)
Bitmap256_count_from(b, w) ==
    IF w > Bitmap256_words THEN 0
    ELSE U64_count_ones(b.bits[w]) + Bitmap256_count_from(b, w + 1)

Bitmap256_count_w(b) == Bitmap256_count_from(b, 1)

Bitmap256_is_full(b) == \A w \in 1..Bitmap256_words : b.bits[w] = U64_MAX

\* the loop of rank from word w on, with i and bits as they stand
RECURSIVE Bitmap256_rank_loop(_, _, _, _)
Bitmap256_rank_loop(b, w, i, bits) ==
    IF w > Bitmap256_words THEN bits
    ELSE IF i <= 63
    THEN bits + U64_count_ones(U64_and(b.bits[w], U64_MAX_shr(63 - i)))
    ELSE Bitmap256_rank_loop(b, w + 1, i - 64, bits + U64_count_ones(b.bits[w]))

\* the mask leaves bit i itself out
Bitmap256_rank_below(b, i) ==
    IF i = 0 THEN 0 ELSE Bitmap256_rank_loop(b, 1, i - 1, 0)

Bitmap256_rank(b, i) == Bitmap256_rank_loop(b, 1, i, 0)

(***************************************************************************)
(* DoubleBitmap256 (submerge-base/src/bitmap256.rs): double_bits: [u64; 8],*)
(* value i in bits 2 * i (low) and 2 * i + 1 (high).                       *)
(***************************************************************************)
DoubleBitmap256_words == 8

DoubleBitmap256_new == [double_bits |-> [w \in 1..DoubleBitmap256_words |-> U64_ZERO]]

\* self.double_bits[at / 64] |= 1 << (at % 64), or &= !(..), as on is true or false
DoubleBitmap256_put(b, at, on) ==
    IF on
    THEN [b EXCEPT !.double_bits[at \div WordBits + 1] = U64_or(@, U64_one_shl(at % WordBits))]
    ELSE [b EXCEPT !.double_bits[at \div WordBits + 1] =
                        U64_and(@, U64_not(U64_one_shl(at % WordBits)))]

\* the low bit goes to i, not to 2 * i
DoubleBitmap256_set_unscaled(b, i, val) ==
    DoubleBitmap256_put(DoubleBitmap256_put(b, i, BitAnd(val, 1) # 0), i + 1,
                        BitAnd(val, 2) # 0)

DoubleBitmap256_set(b, i, val) ==
    LET lo == 2 * i
        hi == lo + 1
        lo_val == BitAnd(val, 1) # 0
        hi_val == BitAnd(val, 2) # 0
    IN  DoubleBitmap256_put(DoubleBitmap256_put(b, lo, lo_val), hi, hi_val)

DoubleBitmap256_get(b, i) ==
    LET lo == 2 * i
        hi == lo + 1
        lo_val == U64_and(b.double_bits[lo \div WordBits + 1], U64_one_shl(lo % WordBits))
                      # U64_ZERO
        hi_val == U64_and(b.double_bits[hi \div WordBits + 1], U64_one_shl(hi % WordBits))
                      # U64_ZERO
    IN  BitOr(IF lo_val THEN 1 ELSE 0, (IF hi_val THEN 1 ELSE 0) * 2)

\* Heap::default()
Heap_default == [data |-> <<>>]

\* MemWriter::new(), in a test build (annotations recorded) or not
InitBuild(test) ==
    /\ wr = MemWriter_new(test)
    /\ stage = "new"
    /\ lw = LayerMeta_default
    /\ bw = NoBlock
    /\ tw = NoTrack
    /\ result = Res("MemWriter::new", "")
    /\ vals_in = <<>>
    /\ rd = NoReader
    /\ ev = NoCall
    /\ heap = Heap_default
    /\ adds = <<>>
    /\ handles = <<>>
    /\ bitmap = Bitmap256_new_w
    /\ double = DoubleBitmap256_new

Init == InitBuild(TRUE)

LayerWriterNew ==
    /\ stage = "new"
    /\ \E l \in {LayerWriter_new(wr)} :
           /\ wr' = l.wr
           /\ lw' = l.meta
    /\ stage' = "layer"
    /\ result' = Res("LayerWriter::new", "")
    /\ UNCHANGED <<bw, tw, vals_in, rd, ev, heap, adds, handles, bitmap, double>>

BeginBlock(limit) ==
    /\ stage = "layer"
    /\ Len(lw.block_end_offsets) < limit
    /\ \E b \in {BlockWriter_new(Len(lw.block_end_offsets), wr)} :
           /\ wr' = b.wr
           /\ bw' = [meta |-> b.meta, info |-> b.info]
    /\ stage' = "block"
    /\ result' = Res("begin_block", "")
    /\ UNCHANGED <<lw, tw, vals_in, rd, ev, heap, adds, handles, bitmap, double>>

BeginTrack(limit) ==
    /\ stage = "block"
    /\ Len(bw.meta.track_end_offsets) < limit
    /\ \E t \in {TrackWriter_new(Len(bw.meta.track_end_offsets), wr)} :
           /\ wr' = t.wr
           /\ tw' = [meta |-> t.meta, info |-> t.info]
           /\ stage' = IF t.err = "" THEN "track" ELSE "error"
           /\ result' = Res("begin_track", t.err)
    /\ vals_in' = <<>>
    /\ UNCHANGED <<lw, bw, rd, ev, heap, adds, handles, bitmap, double>>

\* one write_dict_encoded per track, as in the writer pipeline
WriteDictEncoded(inputs) ==
    /\ stage = "track"
    /\ result.op = "begin_track"
    /\ \E vals \in inputs :
         \E t \in {TrackWriter_write_dict_encoded(tw, vals, wr)} :
             /\ wr' = t.wr
             /\ tw' = [meta |-> t.meta, info |-> t.info]
             /\ stage' = IF t.err = "" THEN "track" ELSE "error"
             /\ result' = Res("write_dict_encoded", t.err)
             /\ vals_in' = vals
    /\ UNCHANGED <<lw, bw, rd, ev, heap, adds, handles, bitmap, double>>

\* write_dict_encoded::<T> for a T other than a small i64; info.lo_val and
\* info.hi_val are full-width i64 from here on
WriteDictEncodedT(inputs) ==
    /\ stage = "track"
    /\ result.op = "begin_track"
    /\ \E vals \in inputs :
         \E t \in {TrackWriter_write_dict_encoded_T(tw, vals, wr)} :
             /\ wr' = t.wr
             /\ tw' = [meta |-> t.meta, info |-> t.info]
             /\ stage' = IF t.err = "" THEN "track" ELSE "error"
             /\ result' = Res("write_dict_encoded", t.err)
             /\ vals_in' = vals
    /\ UNCHANGED <<lw, bw, rd, ev, heap, adds, handles, bitmap, double>>

FinishTrack ==
    /\ stage = "track"
    /\ \E t \in {TrackWriter_finish_track(tw, wr)} :
           /\ wr' = t.wr
           /\ tw' = [tw EXCEPT !.info = t.info]
           /\ bw' = IF t.err = ""
                    THEN [bw EXCEPT !.meta = BlockWriter_note_track_finished(@, t.info)]
                    ELSE bw
           /\ stage' = IF t.err = "" THEN "block" ELSE "error"
           /\ result' = Res("finish_track", t.err)
    /\ UNCHANGED <<lw, vals_in, rd, ev, heap, adds, handles, bitmap, double>>

FinishBlock ==
    /\ stage = "block"
    /\ \E b \in {BlockWriter_finish_block(bw, wr)} :
           /\ wr' = b.wr
           /\ lw' = IF b.err = "" THEN LayerWriter_note_block_finished(lw, b.info) ELSE lw
           /\ stage' = IF b.err = "" THEN "layer" ELSE "error"
           /\ result' = Res("finish_block", b.err)
    /\ UNCHANGED <<bw, tw, vals_in, rd, ev, heap, adds, handles, bitmap, double>>

FinishLayer ==
    /\ stage = "layer"
    /\ \E l \in {LayerMeta_write(lw, wr)} :
           /\ wr' = pop_context(l.wr)
           /\ stage' = IF l.err = "" THEN "finished" ELSE "error"
           /\ result' = Res("finish_layer", l.err)
    /\ UNCHANGED <<lw, bw, tw, vals_in, rd, ev, heap, adds, handles, bitmap, double>>

\* MemWriter::try_into_reader: the reader gets the writer's bytes
IntoReader ==
    /\ stage = "finished"
    /\ rd' = [NoReader EXCEPT !.content = wr.mem]
    /\ stage' = "reading"
    /\ UNCHANGED <<wr, lw, bw, tw, result, vals_in, ev, heap, adds, handles, bitmap, double>>

\* a finished file damaged before it is opened: one byte overwritten
Corrupt ==
    /\ stage = "reading"
    /\ rd.corrupted < MaxCorrupt
    /\ \E i \in 1..rd.content.len, b \in JunkBytes :
         /\ Vec_get(rd.content, i) # b
         /\ rd' = [rd EXCEPT !.content = Vec_write(@, i - 1, <<b>>), !.corrupted = @ + 1]
    /\ UNCHANGED <<wr, stage, lw, bw, tw, result, vals_in, ev, heap, adds, handles, bitmap, double>>

\* a finished file cut short before it is opened
Truncate ==
    /\ stage = "reading"
    /\ rd.corrupted < MaxCorrupt
    /\ \E n \in 0..(rd.content.len - 1) :
         rd' = [rd EXCEPT !.content = Vec_truncate(@, n), !.corrupted = @ + 1]
    /\ UNCHANGED <<wr, stage, lw, bw, tw, result, vals_in, ev, heap, adds, handles, bitmap, double>>

\* LayerReader::new on the content, in a build of either pointer width
OpenLayer ==
    /\ stage = "reading"
    /\ \E pw \in PointerWidths :
         \E o \in LayerReader_new(rd.content, pw) :
             rd' = [rd EXCEPT !.pw = pw, !.opened = TRUE, !.outcome = o]
    /\ stage' = "opened"
    /\ UNCHANGED <<wr, lw, bw, tw, result, vals_in, ev, heap, adds, handles, bitmap, double>>

CallDictEncode ==
    /\ ev = NoCall
    /\ \E xs \in SeqsUpTo(EncVals, MaxEncLen) :
         ev' = [fn |-> "dict_encode", arg |-> xs, ret |-> dict_encode(xs)]
    /\ UNCHANGED <<wr, stage, lw, bw, tw, result, vals_in, rd, heap, adds, handles, bitmap, double>>

CallRunEndEncode ==
    /\ ev = NoCall
    /\ \E xs \in SeqsUpTo(EncVals, MaxEncLen) :
         ev' = [fn |-> "run_end_encode", arg |-> xs, ret |-> run_end_encode(xs)]
    /\ UNCHANGED <<wr, stage, lw, bw, tw, result, vals_in, rd, heap, adds, handles, bitmap, double>>

\* the writer pipeline and an honest reopen
Next ==
    \/ LayerWriterNew
    \/ BeginBlock(MaxBlocks)
    \/ BeginTrack(MaxTracks)
    \/ WriteDictEncoded(TrackInputs)
    \/ FinishTrack
    \/ FinishBlock
    \/ FinishLayer
    \/ IntoReader
    \/ OpenLayer

Spec == Init /\ [][Next]_vars

\* the pure encoders on every input up to MaxEncLen
NextEnc == CallDictEncode \/ CallRunEndEncode
SpecEnc == Init /\ [][NextEnc]_vars

\* one block holding one track, over every input up to MaxTrackRows
NextTrack ==
    \/ LayerWriterNew
    \/ BeginBlock(1)
    \/ BeginTrack(1)
    \/ WriteDictEncoded(SeqsUpTo(TrackVals, MaxTrackRows))
    \/ FinishTrack
    \/ FinishBlock
    \/ FinishLayer
SpecTrack == Init /\ [][NextTrack]_vars

\* layers of empty blocks, damaged or not, reopened
NextRead ==
    \/ LayerWriterNew
    \/ BeginBlock(MaxReadBlocks)
    \/ FinishBlock
    \/ FinishLayer
    \/ IntoReader
    \/ Corrupt
    \/ Truncate
    \/ OpenLayer
SpecRead == Init /\ [][NextRead]_vars

\* one block filled with empty tracks up to and past its capacity
NextTrackCap ==
    \/ LayerWriterNew
    \/ BeginBlock(1)
    \/ BeginTrack(TryTracks)
    \/ FinishTrack
    \/ FinishBlock
    \/ FinishLayer
SpecTrackCap == InitBuild(FALSE) /\ [][NextTrackCap]_vars

\* one layer filled with empty blocks up to and past its capacity
NextBlockCap ==
    \/ LayerWriterNew
    \/ BeginBlock(TryBlocks)
    \/ FinishBlock
    \/ FinishLayer
SpecBlockCap == InitBuild(FALSE) /\ [][NextBlockCap]_vars

(***************************************************************************)
(* The heap (heap.rs): SpecHeap makes a bounded number of Heap::add calls  *)
(* with short slices over two byte values and records each call.           *)
(***************************************************************************)
MaxAdds == 3            \* Heap::add calls per heap in SpecHeap
MaxSliceLen == 2        \* length of a slice given to Heap::add in SpecHeap
HeapBytes == {1, 2}

\* a first-byte comparison in place of the whole needle
memmem_find_first_byte(haystack, needle) ==
    LET hits == {p \in 0..(Len(haystack) - Len(needle)) :
                     needle # <<>> => haystack[p + 1] = needle[1]}
    IN  IF hits = {} THEN [some |-> FALSE, pos |-> 0]
        ELSE [some |-> TRUE, pos |-> CHOOSE p \in hits : \A q \in hits : p <= q]

\* memchr::memmem::find(haystack, needle): the first (0-based) place where
\* needle occurs in haystack, Some(0) for the empty needle
memmem_find(haystack, needle) ==
    LET hits == {p \in 0..(Len(haystack) - Len(needle)) :
                     \A j \in 1..Len(needle) : haystack[p + j] = needle[j]}
    IN  IF hits = {} THEN [some |-> FALSE, pos |-> 0]
        ELSE [some |-> TRUE, pos |-> CHOOSE p \in hits : \A q \in hits : p <= q]

\* Heap::add: the heap afterwards and the offset returned
Heap_add(h, new_data) ==
    LET found == memmem_find(h.data, new_data)
    IN  IF found.some
        THEN [heap |-> h, pos |-> found.pos]
        ELSE [heap |-> [h EXCEPT !.data = h.data \o new_data], pos |-> Len(h.data)]

HeapAdd ==
    /\ Len(adds) < MaxAdds
    /\ \E new_data \in SeqsUpTo(HeapBytes, MaxSliceLen) :
         \E r \in {Heap_add(heap, new_data)} :
            /\ heap' = r.heap
            /\ adds' = Append(adds, [new_data |-> new_data, pos |-> r.pos,
                                     len |-> Len(r.heap.data)])
    /\ UNCHANGED <<wr, stage, lw, bw, tw, result, vals_in, rd, ev, handles, bitmap, double>>

NextHeap == HeapAdd
SpecHeap == Init /\ [][NextHeap]_vars

(***************************************************************************)
(* The implicit-track detectors (lib.rs): SpecVirt calls each once on a    *)
(* short slice of small values.                                            *)
(***************************************************************************)
MaxVirtLen == 7         \* input length of the detectors in SpecVirt
VirtVals == {2, 3, 4}

\* the for loop of pos_virt_base_and_factor from 1-based row i on; ok = FALSE
\* is the early "return None"
RECURSIVE pos_virt_loop(_, _, _)
pos_virt_loop(vals, i, st) ==
    IF i > Len(vals) \/ ~st.ok THEN st
    ELSE LET val == vals[i]
         IN  pos_virt_loop(vals, i + 1,
                 IF i = 1 THEN [st EXCEPT !.base = val, !.prev = val]
                 ELSE IF i = 2 THEN [st EXCEPT !.diff = val - st.prev, !.prev = val]
                 ELSE IF st.diff = val - st.prev THEN [st EXCEPT !.prev = val]
                 ELSE [st EXCEPT !.ok = FALSE])

\* the first two rows answer for the whole slice
pos_virt_base_and_factor_of_two(vals) ==
    IF Len(vals) < 2 THEN None ELSE Some(<<vals[1], vals[2] - vals[1]>>)

pos_virt_base_and_factor(vals) ==
    IF Len(vals) < 2 THEN None
    ELSE LET st == pos_virt_loop(vals, 1, [base |-> 0, prev |-> 0, diff |-> 0, ok |-> TRUE])
         IN  IF st.ok THEN Some(<<st.base, st.diff>>) ELSE None

\* the for loop of neg_virt_base_and_factor from 1-based row i on
RECURSIVE neg_virt_loop(_, _, _)
neg_virt_loop(vals, i, st) ==
    IF i > Len(vals) \/ ~st.ok THEN st
    ELSE LET val == vals[i]
         IN  neg_virt_loop(vals, i + 1,
                 IF i = 1
                 THEN [st EXCEPT !.base = val, !.prev = val, !.curr_run_len = 1]
                 ELSE IF st.prev = val
                 THEN [st EXCEPT !.prev = val, !.curr_run_len = @ + 1]
                 ELSE IF st.prev + 1 # val
                 THEN [st EXCEPT !.ok = FALSE]
                 ELSE IF st.run # 0 /\ st.prev_run_len # st.curr_run_len
                 THEN [st EXCEPT !.ok = FALSE]
                 ELSE [st EXCEPT !.prev = val, !.prev_run_len = st.curr_run_len,
                                 !.curr_run_len = 1, !.run = @ + 1])

neg_virt_start == [base |-> 0, prev |-> 0, run |-> 0, curr_run_len |-> 0,
                   prev_run_len |-> 0, ok |-> TRUE]

\* the final run is not measured against the runs before it
neg_virt_base_and_factor_any_final_run(vals) ==
    IF Len(vals) < 2 THEN None
    ELSE LET st == neg_virt_loop(vals, 1, neg_virt_start)
         IN  IF st.ok /\ st.run # 0
             THEN Some(<<st.base, 0 - st.prev_run_len>>)
             ELSE None

neg_virt_base_and_factor(vals) ==
    IF Len(vals) < 2 THEN None
    ELSE LET st == neg_virt_loop(vals, 1, neg_virt_start)
         IN  IF st.ok /\ st.run # 0 /\ st.curr_run_len <= st.prev_run_len
             THEN Some(<<st.base, 0 - st.prev_run_len>>)
             ELSE None

CallPosVirt ==
    /\ ev = NoCall
    /\ \E xs \in SeqsUpTo(VirtVals, MaxVirtLen) :
          ev' = [fn |-> "pos_virt_base_and_factor", arg |-> xs,
                 ret |-> pos_virt_base_and_factor(xs)]
    /\ UNCHANGED <<wr, stage, lw, bw, tw, result, vals_in, rd, heap, adds, handles, bitmap, double>>

CallNegVirt ==
    /\ ev = NoCall
    /\ \E xs \in SeqsUpTo(VirtVals, MaxVirtLen) :
          ev' = [fn |-> "neg_virt_base_and_factor", arg |-> xs,
                 ret |-> neg_virt_base_and_factor(xs)]
    /\ UNCHANGED <<wr, stage, lw, bw, tw, result, vals_in, rd, heap, adds, handles, bitmap, double>>

NextVirt == CallPosVirt \/ CallNegVirt
SpecVirt == Init /\ [][NextVirt]_vars

(***************************************************************************)
(* Word-type selection at full width (wordty.rs).  A u64 is its four       *)
(* 16-bit limbs, most significant first; an i64 is its sign and the limbs  *)
(* of its magnitude.  SpecWordTy calls select_min_and_ty once on a short   *)
(* slice of values around the width boundaries.                            *)
(***************************************************************************)
MaxWordTyLen == 3       \* input length of select_min_and_ty in SpecWordTy
I64Vals ==
    { I64(FALSE, U64(0, 0, 0, 0)),             \* 0
      I64(FALSE, U64(0, 0, 0, 1)),             \* 1
      I64(FALSE, U64(0, 0, 0, 255)),           \* 0xff
      I64(FALSE, U64(0, 0, 0, 256)),           \* 0x100
      I64(FALSE, U64(0, 0, 0, 4095)),          \* 0xfff
      I64(FALSE, U64(0, 0, 0, 65280)),         \* 0xff00
      I64(FALSE, U64(0, 0, 1, 0)),             \* 0x1_0000
      I64(FALSE, U64(0, 0, 65535, 65535)),     \* 0xffff_ffff
      I64(FALSE, U64(0, 1, 0, 0)),             \* 0x1_0000_0000
      I64(FALSE, U64(32767, 65535, 65535, 65535)),  \* i64::MAX
      I64(TRUE, U64(0, 0, 0, 1)),              \* -1
      I64(TRUE, U64(32768, 0, 0, 0)) }         \* i64::MIN

CallSelectMinAndTy ==
    /\ ev = NoCall
    /\ \E xs \in SeqsUpTo(I64Vals, MaxWordTyLen) :
          ev' = [fn |-> "select_min_and_ty", arg |-> xs,
                 ret |-> WordTy_select_min_and_ty_u64(xs)]
    /\ UNCHANGED <<wr, stage, lw, bw, tw, result, vals_in, rd, heap, adds, handles, bitmap, double>>

NextWordTy == CallSelectMinAndTy
SpecWordTy == Init /\ [][NextWordTy]_vars

(***************************************************************************)
(* SpecKinds: one block, one track of values of one type (i64 at full      *)
(* width, floats, byte slices), written and finished.  The block is left   *)
(* open: its footer is written from integers, not full-width i64.          *)
(***************************************************************************)
MaxKindRows == 3        \* rows of the single track of SpecKinds
KindVals ==
    { IntVal(0 - 1), IntVal(2),
      FloVal(0 - 2), FloVal(0 - 1), FloVal(1),
      BinVal(<<1>>), BinVal(<<200>>), BinVal(<<1, 200>>) }

\* write_dict_encoded<T> takes values of one type
KindInputs ==
    {xs \in SeqsUpTo(KindVals, MaxKindRows) :
         \A i, j \in 1..Len(xs) : xs[i].kind = xs[j].kind}

NextKinds ==
    \/ LayerWriterNew
    \/ BeginBlock(1)
    \/ BeginTrack(1)
    \/ WriteDictEncodedT(KindInputs)
    \/ FinishTrack
SpecKinds == Init /\ [][NextKinds]_vars

(***************************************************************************)
(* SpecChunks: write_dict_encoded called again and again on one track, in  *)
(* a build without overflow checks, until the code chunks run out.  Every  *)
(* call writes one code chunk; the first calls choose between a plain and  *)
(* a run-coded chunk, the later ones write a single row.                   *)
(***************************************************************************)
TryChunks == 257        \* write_dict_encoded is called while fewer code chunks are noted
MaxVariedWrites == 2    \* code chunks noted before every call writes a single row

OneRow == <<5>>
RunCoded == <<6, 5, 5, 5, 5, 5, 5>>

\* write_dict_encoded consumes the TrackWriter and returns it: it can be called
\* again on the track it returned
WriteDictEncodedAgain ==
    /\ stage = "track"
    /\ Len(tw.meta.code_chunk_maxs) < TryChunks
    /\ \E vals \in IF Len(tw.meta.code_chunk_maxs) < MaxVariedWrites
                   THEN {OneRow, RunCoded} ELSE {OneRow} :
         \E t \in {TrackWriter_write_dict_encoded(tw, vals, wr)} :
             /\ wr' = t.wr
             /\ tw' = [meta |-> t.meta, info |-> t.info]
             /\ stage' = IF t.err = "" THEN "track" ELSE "error"
             /\ result' = Res("write_dict_encoded", t.err)
             /\ vals_in' = vals
    /\ UNCHANGED <<lw, bw, rd, ev, heap, adds, handles, bitmap, double>>

NextChunks ==
    \/ LayerWriterNew
    \/ BeginBlock(1)
    \/ BeginTrack(1)
    \/ WriteDictEncodedAgain
    \/ FinishTrack
SpecChunks == InitBuild(FALSE) /\ [][NextChunks]_vars

(***************************************************************************)
(* Reader handles (ioutil.rs): SpecReaders opens a MemReader or a          *)
(* FileReader on a three-byte content, clones handles and interleaves      *)
(* reads and seeks on them.  Each entry of handles is a reader together    *)
(* with what its last read returned and the list of the calls made on it.  *)
(***************************************************************************)
MaxHandles == 2         \* reader handles open at once in SpecReaders
MaxReaderOps == 3       \* reads and seeks made in all, over all handles
MaxReadLen == 2         \* bytes asked of one read

ReaderContent == Vec_write(Vec_new, 0, <<7, 8, 9>>)
ReaderPath == "layer"

\* File::open: a new open file at offset 0 of the file at path (whose bytes do
\* not change while it is read)
File_open(path) == MemReader_new(ReaderContent)

\* MemReader::from(vec) / MemReader::new(mem)
MemReader_from(mem) == [kind |-> "mem", cursor |-> MemReader_new(mem), path |-> ""]

FileReader_try_open_existing(path) ==
    [kind |-> "file", cursor |-> File_open(path), path |-> path]

\* the clone keeps the cursor of the reader it is made from
try_clone_with_cursor(r) == r

\* Reader::try_clone_independent of MemReader (the Arc of the same bytes in a
\* new Cursor) and of FileReader (the path opened again)
try_clone_independent(r) ==
    IF r.kind = "mem" THEN MemReader_from(r.cursor.mem)
    ELSE FileReader_try_open_existing(r.path)

\* Read for MemReader / FileReader, through read_exact
Reader_read_exact(r, n) ==
    LET done(x) == [err |-> x.err, buf |-> x.buf, rd |-> [r EXCEPT !.cursor = x.rd]]
    IN  done(read_exact(r.cursor, n))

\* Seek for MemReader / FileReader, SeekFrom::Start(target)
Reader_seek(r, target) ==
    LET done(x) == [err |-> x.err, rd |-> [r EXCEPT !.cursor = x.rd]]
    IN  done(seek_to(r.cursor, target))

NoneRead == [err |-> "", buf |-> <<>>]
Handle(r) == [rd |-> r, got |-> NoneRead, log |-> <<>>]

\* the reads and seeks made so far on the handles from the i-th on
RECURSIVE OpsMade(_, _)
OpsMade(hs, i) == IF i > Len(hs) THEN 0 ELSE Len(hs[i].log) + OpsMade(hs, i + 1)

OpenReader ==
    /\ handles = <<>>
    /\ \E r \in {MemReader_from(ReaderContent), FileReader_try_open_existing(ReaderPath)} :
           handles' = <<Handle(r)>>
    /\ UNCHANGED <<wr, stage, lw, bw, tw, result, vals_in, rd, ev, heap, adds, bitmap, double>>

\* try_clone_independent on handle i; opening the path again can fail
CloneReader ==
    /\ handles # <<>>
    /\ Len(handles) < MaxHandles
    /\ \E i \in 1..Len(handles) :
          \/ handles' = Append(handles, Handle(try_clone_independent(handles[i].rd)))
          \/ handles[i].rd.kind = "file" /\ handles' = handles
    /\ UNCHANGED <<wr, stage, lw, bw, tw, result, vals_in, rd, ev, heap, adds, bitmap, double>>

ReadOn ==
    /\ OpsMade(handles, 1) < MaxReaderOps
    /\ \E i \in 1..Len(handles), n \in 1..MaxReadLen :
         \E x \in {Reader_read_exact(handles[i].rd, n)} :
            handles' = [handles EXCEPT ![i] =
                [rd |-> x.rd, got |-> [err |-> x.err, buf |-> x.buf],
                 log |-> Append(@.log, [op |-> "read", arg |-> n])]]
    /\ UNCHANGED <<wr, stage, lw, bw, tw, result, vals_in, rd, ev, heap, adds, bitmap, double>>

SeekOn ==
    /\ OpsMade(handles, 1) < MaxReaderOps
    /\ \E i \in 1..Len(handles), target \in 0..(ReaderContent.len + 1) :
         \E x \in {Reader_seek(handles[i].rd, target)} :
            handles' = [handles EXCEPT ![i] =
                [rd |-> x.rd, got |-> @.got,
                 log |-> Append(@.log, [op |-> "seek", arg |-> target])]]
    /\ UNCHANGED <<wr, stage, lw, bw, tw, result, vals_in, rd, ev, heap, adds, bitmap, double>>

NextReaders == OpenReader \/ CloneReader \/ ReadOn \/ SeekOn
SpecReaders == Init /\ [][NextReaders]_vars

(***************************************************************************)
(* Bitmap256: sets and clears at the ends of the four words, set_all and   *)
(* clear_all, and rank asked at every position (SpecBitmap).               *)
(***************************************************************************)
MaxBit == 255              \* u8::MAX, the last position of a Bitmap256
BitPositions == {0, 63, 64, 128, MaxBit}

BitmapSet ==
    /\ \E i \in BitPositions, val \in BOOLEAN : bitmap' = Bitmap256_set_w(bitmap, i, val)
    /\ ev' = NoCall
    /\ UNCHANGED <<wr, stage, lw, bw, tw, result, vals_in, rd, heap, adds, handles, double>>

BitmapSetAll ==
    /\ bitmap' = Bitmap256_set_all(bitmap)
    /\ ev' = NoCall
    /\ UNCHANGED <<wr, stage, lw, bw, tw, result, vals_in, rd, heap, adds, handles, double>>

BitmapClearAll ==
    /\ bitmap' = Bitmap256_clear_all(bitmap)
    /\ ev' = NoCall
    /\ UNCHANGED <<wr, stage, lw, bw, tw, result, vals_in, rd, heap, adds, handles, double>>

CallRank ==
    /\ ev = NoCall
    /\ \E i \in 0..MaxBit :
          ev' = [fn |-> "Bitmap256::rank", arg |-> i, ret |-> Bitmap256_rank(bitmap, i)]
    /\ UNCHANGED <<wr, stage, lw, bw, tw, result, vals_in, rd, heap, adds, handles, bitmap, double>>

NextBitmap == BitmapSet \/ BitmapSetAll \/ BitmapClearAll \/ CallRank
SpecBitmap == Init /\ [][NextBitmap]_vars

(***************************************************************************)
(* DoubleBitmap256: set at the ends of the words and in the middle, every  *)
(* value 0..=3, any number of times (SpecDouble).                          *)
(***************************************************************************)
DoublePositions == {0, 31, 32, MaxBit}

DoubleSet ==
    /\ \E i \in DoublePositions, val \in 0..3 :
          /\ double' = DoubleBitmap256_set(double, i, val)
          /\ ev' = [fn |-> "DoubleBitmap256::set", arg |-> <<i, val>>, ret |-> double]
    /\ UNCHANGED <<wr, stage, lw, bw, tw, result, vals_in, rd, heap, adds, handles, bitmap>>

NextDouble == DoubleSet
SpecDouble == Init /\ [][NextDouble]_vars

(***************************************************************************)
(* Properties: the pure encoders (SpecEnc).                                *)
(***************************************************************************)
\* C2: dict_encode returns the distinct values of vals in strictly increasing
\* order (code 0 = smallest), one code per row, and dict[codes[i]] = vals[i]
C2_DictEncodeSortedAndInvertible ==
    ev.fn = "dict_encode" =>
        LET xs == ev.arg
            dict == ev.ret.dict
            codes == ev.ret.codes
        IN  /\ ev.ret.err = ""
            /\ \A i \in 1..(Len(dict) - 1) : dict[i] < dict[i + 1]
            /\ {dict[i] : i \in 1..Len(dict)} = {xs[i] : i \in 1..Len(xs)}
            /\ Len(codes) = Len(xs)
            /\ \A i \in 1..Len(xs) :
                   /\ codes[i] \in 0..(Len(dict) - 1)
                   /\ dict[codes[i] + 1] = xs[i]

\* dict_encode was given unsorted rows with a repeated value
C2_Witness ==
    /\ ev.fn = "dict_encode"
    /\ Len(ev.arg) = MaxEncLen
    /\ ev.arg[1] > ev.arg[2]
    /\ Len(ev.ret.dict) = 2
    /\ ev.ret.codes[1] = 1

\* the expansion the run-end format is read with: run k covers the rows after
\* the end of run k - 1 up to and including row run_ends[k]
ExpandRuns(run_vals, run_ends) ==
    IF run_ends = <<>> THEN <<>>
    ELSE [row \in 1..(run_ends[Len(run_ends)] + 1) |->
             run_vals[CHOOSE k \in 1..Len(run_ends) :
                          /\ row - 1 <= run_ends[k]
                          /\ \A j \in 1..(k - 1) : run_ends[j] < row - 1]]

\* C3: expanding what run_end_encode returns reproduces the chunk, element for
\* element and with the same length
C3_RunEndRoundTrip ==
    (ev.fn = "run_end_encode" /\ ev.ret.err = "") =>
        ExpandRuns(ev.ret.run_vals, ev.ret.run_ends) = ev.arg

(***************************************************************************)
(* Properties: one track in one block (SpecTrack).                         *)
(***************************************************************************)
\* what begin_track, write_dict_encoded(xs), finish_track leave behind in the
\* first block of a fresh layer: the file bytes and the block-meta entry
track_written(xs) ==
    LET fin(f) == [mem |-> f.wr.mem,
                   entry |-> BlockWriter_note_track_finished(BlockMeta_default, f.info)]
        wrote(d) == fin(TrackWriter_finish_track([meta |-> d.meta, info |-> d.info], d.wr))
        begun(t) == wrote(TrackWriter_write_dict_encoded(
                              [meta |-> t.meta, info |-> t.info], xs, t.wr))
    IN  begun(TrackWriter_new(0,
                  BlockWriter_new(0, LayerWriter_new(MemWriter_new(TRUE)).wr).wr))

\* C1: the written track and its block-meta entry determine the rows: no other
\* sequence of rows is written as the same bytes and entry
C1_TrackDeterminesRows ==
    (stage = "block" /\ result = Res("finish_track", "")) =>
        LET same(mine) ==
                /\ mine = [mem |-> wr.mem, entry |-> bw.meta]
                /\ \A ys \in SeqsUpTo(TrackVals, MaxTrackRows) :
                       track_written(ys) = mine => ys = vals_in
        IN  same(track_written(vals_in))

(***************************************************************************)
(* Properties: the writer pipeline and an honest reopen (Spec).            *)
(***************************************************************************)
\* C4: the entry finish_block appends to the layer's block_end_offsets is the
\* writer's position right after the block's footer
C4_BlockEndOffsetIsBlockEnd ==
    result = Res("finish_block", "") =>
        lw.block_end_offsets[Len(lw.block_end_offsets)] = wr.pos

\* C5: a finished layer reopens, and the metadata read is the metadata the
\* writer held: version 0, rows, cols and the block_end_offsets vector
C5_LayerMetaRoundTrip ==
    (stage = "opened" /\ rd.corrupted = 0) =>
        /\ rd.outcome.status = "ok"
        /\ rd.outcome.meta = [vers |-> 0, rows |-> lw.rows, cols |-> lw.cols,
                              block_end_offsets |-> lw.block_end_offsets]

\* a layer of one finished block was reopened: rows = 0, cols = 0, nblocks = 1
C5_Witness ==
    /\ stage = "opened"
    /\ Len(lw.block_end_offsets) = 1
    /\ rd.content = wr.mem
    /\ rd.outcome.status = "ok"
    /\ rd.outcome.meta.rows = 0
    /\ rd.outcome.meta.cols = 0
    /\ Len(rd.outcome.meta.block_end_offsets) = 1

\* the annotations of the length words of the footers written so far
SelfLenAnnotations ==
    {i \in 1..Len(wr.annotations) :
        wr.annotations[i].name[Len(wr.annotations[i].name)] = "self_len"}

\* where the footer closed by length word i starts: the first byte annotated
\* within the same "meta" context
FooterFirstByte(i) ==
    LET ctx == SubSeq(wr.annotations[i].name, 1, Len(wr.annotations[i].name) - 1)
        inside == {j \in 1..Len(wr.annotations) :
                      /\ Len(wr.annotations[j].name) > Len(ctx)
                      /\ SubSeq(wr.annotations[j].name, 1, Len(ctx)) = ctx}
    IN  CHOOSE p \in {wr.annotations[j].range[1] : j \in inside} :
            \A j \in inside : p <= wr.annotations[j].range[1]

\* C6: every footer ends with an 8-byte little-endian word holding the distance
\* from the footer's first byte to the start of that word
C6_FooterLengthWord ==
    \A i \in SelfLenAnnotations :
        LET at == wr.annotations[i].range
        IN  /\ at[2] - at[1] = 8
            /\ at[2] <= wr.mem.len
            /\ from_le_bytes(Vec_slice(wr.mem, at[1] + 1, at[2])) = at[1] - FooterFirstByte(i)
            /\ at[2] - 8 - from_le_bytes(Vec_slice(wr.mem, at[1] + 1, at[2]))
                   = FooterFirstByte(i)

\* a finished layer holding a track footer, a block footer and the layer footer,
\* the track written from rows
C6_Witness ==
    /\ stage = "finished"
    /\ Cardinality(SelfLenAnnotations) >= 3
    /\ Len(vals_in) > 0
    /\ \E i \in SelfLenAnnotations :
           /\ Len(wr.annotations[i].name) = 7
           /\ wr.annotations[i].range[1] - FooterFirstByte(i) > 200

(***************************************************************************)
(* Properties: reopening damaged layers (SpecRead).                        *)
(***************************************************************************)
\* C7: content whose first 8 bytes are not "submerge" is refused with the bad
\* magic error; a finished layer starts with "submerge" and passes the check
C7_BadMagicRejected ==
    /\ (stage = "opened" /\ rd.content.len >= 8 /\ Vec_slice(rd.content, 1, 8) # MAGIC) =>
           (rd.outcome.status = "err" /\ rd.outcome.msg = "bad magic number")
    /\ stage \in {"finished", "reading", "opened"} => Vec_slice(wr.mem, 1, 8) = MAGIC
    /\ (stage = "opened" /\ rd.content = wr.mem) => rd.outcome.msg # "bad magic number"

\* a finished layer with one byte of its magic overwritten, the rest intact,
\* was refused
C7_Witness ==
    /\ stage = "opened"
    /\ rd.content.len = wr.mem.len
    /\ Vec_slice(rd.content, 1, 8) # MAGIC
    /\ Vec_slice(rd.content, 9, rd.content.len) = Vec_slice(wr.mem, 9, wr.mem.len)
    /\ rd.outcome.msg = "bad magic number"

\* field k (from 0) of the footer the content ends with, as LayerReader finds it
LayerFooterField(mem, k) ==
    LET start == mem.len - 8 - from_le_bytes(Vec_slice(mem, mem.len - 7, mem.len))
    IN  from_le_bytes(Vec_slice(mem, start + 8 * k + 1, start + 8 * k + 8))

\* the content has its magic and a footer whose four fixed fields can be read
LayerFooterReadable(mem) ==
    /\ mem.len >= 16
    /\ Vec_slice(mem, 1, 8) = MAGIC
    /\ from_le_bytes(Vec_slice(mem, mem.len - 7, mem.len)) \in 32..(mem.len - 16)
    /\ LayerFooterField(mem, 0) <= VERS

\* C8: a footer with a negative block count is refused with an error, before
\* block_end_offsets is allocated or read
C8_NegativeBlockCountRejected ==
    (/\ stage = "opened"
     /\ LayerFooterReadable(rd.content)
     /\ LayerFooterField(rd.content, 3) < 0) =>
        (rd.outcome.status = "err" /\ ~rd.outcome.alloc)

(***************************************************************************)
(* Properties: capacities (SpecTrackCap, SpecBlockCap).                    *)
(***************************************************************************)
\* C9: with k tracks finished in the block, begin_track succeeds for k < 256
\* and is refused after that, and finish_block succeeds for every k <= 256
C9_TrackCapacity ==
    LET k == Len(bw.meta.track_end_offsets)
    IN  /\ (result.op = "begin_track" /\ k < 256) => result.err = ""
        /\ (result.op = "begin_track" /\ k >= 256) => result.err # ""
        /\ (result.op = "finish_block" /\ k <= 256) => result.err = ""

\* C10: the block count finish_layer writes never exceeds 256
C10_AtMost256Blocks ==
    stage = "finished" => LayerFooterField(wr.mem, 3) <= 256

(***************************************************************************)
(* Properties: the heap (SpecHeap).                                        *)
(***************************************************************************)
\* C11: Heap::add only appends: every step keeps the old heap bytes as a prefix
\* of the new heap, and after it the bytes at the offset returned by every add
\* made so far are still the slice that add was given
C11_HeapContentAddressing ==
    [][ /\ Len(heap'.data) >= Len(heap.data)
        /\ SubSeq(heap'.data, 1, Len(heap.data)) = heap.data
        /\ \A i \in 1..Len(adds') :
               SubSeq(heap'.data, adds'[i].pos + 1,
                      adds'[i].pos + Len(adds'[i].new_data)) = adds'[i].new_data
      ]_vars

\* a non-empty slice was added and a later add appended bytes behind it
C11_Witness ==
    \E i \in 1..Len(adds), j \in 1..Len(adds) :
        /\ i < j
        /\ adds[i].new_data # <<>>
        /\ adds[j].new_data # <<>>
        /\ adds[j].pos >= adds[i].pos + Len(adds[i].new_data)
        /\ adds[j].len > adds[i].len

\* C12: an add of the slice just added returns the same offset and leaves the
\* heap as it was
C12_SameSliceSameOffset ==
    \A i \in 1..(Len(adds) - 1) :
        adds[i + 1].new_data = adds[i].new_data =>
            /\ adds[i + 1].pos = adds[i].pos
            /\ adds[i + 1].len = adds[i].len

(***************************************************************************)
(* Properties: the implicit-track detectors (SpecVirt).                    *)
(***************************************************************************)
\* xs is runs of k equal values, base then base + 1 and so on, at least two
\* runs, the last one of k values or fewer
StepRuns(xs, base, k) ==
    /\ k >= 1
    /\ Len(xs) > k
    /\ \A i \in 1..Len(xs) : xs[i] = base + ((i - 1) \div k)

Arithmetic(xs) ==
    /\ Len(xs) >= 2
    /\ \A i \in 1..Len(xs) : xs[i] = xs[1] + (i - 1) * (xs[2] - xs[1])

\* C14: pos_virt_base_and_factor returns Some((xs[0], xs[1] - xs[0])) for every
\* slice of two or more values with xs[i] = xs[0] + i * (xs[1] - xs[0]), and
\* None for every slice that breaks the pattern or is shorter than two
C14_PosVirtIffArithmetic ==
    ev.fn = "pos_virt_base_and_factor" =>
        LET xs == ev.arg
        IN  IF Arithmetic(xs)
            THEN ev.ret = Some(<<xs[1], xs[2] - xs[1]>>)
            ELSE ev.ret = None

\* a progression of three or more values was recognised
C14_Witness ==
    /\ ev.fn = "pos_virt_base_and_factor"
    /\ Len(ev.arg) >= 3
    /\ ev.ret.some
    /\ ev.ret.val[2] # 0

(***************************************************************************)
(* Properties: one track written and finished (SpecTrack).                 *)
(***************************************************************************)
\* the detectors that match xs
Detected(xs) ==
    {d \in {pos_virt_base_and_factor(xs), neg_virt_base_and_factor(xs)} : d.some}

\* C15: a finished track whose rows match an implicit-track detector has its bit
\* set in track_implicit, the detector's (base, factor) as its lo_val and hi_val,
\* its row count recorded, and ends where a track without a body ends
C15_DetectedTrackIsImplicit ==
    (stage = "block" /\ result = Res("finish_track", "") /\ Detected(vals_in) # {}) =>
        \E d \in Detected(vals_in) :
            /\ Bitmap256_get(bw.meta.track_implicit, 0)
            /\ bw.meta.track_lo_vals = <<d.val[1]>>
            /\ bw.meta.track_hi_vals = <<d.val[2]>>
            /\ bw.meta.track_rows = <<Len(vals_in)>>
            /\ bw.meta.track_end_offsets = track_written(<<>>).entry.track_end_offsets

(***************************************************************************)
(* Properties: word-type selection (SpecWordTy).                           *)
(***************************************************************************)
\* d < 2^(8w) for a u64 d
FitsIn(d, w) ==
    CASE w = 1 -> d[1] = 0 /\ d[2] = 0 /\ d[3] = 0 /\ d[4] < 256
      [] w = 2 -> d[1] = 0 /\ d[2] = 0 /\ d[3] = 0
      [] w = 4 -> d[1] = 0 /\ d[2] = 0
      [] w = 8 -> TRUE

\* the values below 2^31, as the integers the writer pipeline is given
SmallInt(x) == ~x.neg /\ x.mag[1] = 0 /\ x.mag[2] = 0 /\ x.mag[3] < 32768
IntOf(x) == x.mag[3] * Limb + x.mag[4]

\* C16: select_min_and_ty returns the minimum of the values taken as unsigned
\* 64-bit numbers (0 for no values) and the smallest width of 1, 2, 4, 8 bytes
\* that holds every value's offset from that minimum; [] gives (0, Word1),
\* [0xfff] gives (0xfff, Word1), [0xff00, 0xff] gives (0xff, Word2)
C16_SelectMinAndTy ==
    ev.fn = "select_min_and_ty" =>
        LET xs == ev.arg
            us == {as_u64(xs[i]) : i \in 1..Len(xs)}
            min == ev.ret.min
            fits(w) == \A u \in us : FitsIn(U64_wrapping_sub(u, min), w)
        IN  /\ IF us = {} THEN min = U64(0, 0, 0, 0)
               ELSE min \in us /\ \A u \in us : ~U64_lt(u, min)
            /\ ev.ret.ty \in {1, 2, 4, 8}
            /\ fits(ev.ret.ty)
            /\ \A w \in {1, 2, 4, 8} : w < ev.ret.ty => ~fits(w)
            /\ xs = <<>> => ev.ret = [min |-> U64(0, 0, 0, 0), ty |-> 1]
            /\ xs = <<I64(FALSE, U64(0, 0, 0, 4095))>> =>
                   ev.ret = [min |-> U64(0, 0, 0, 4095), ty |-> 1]
            /\ xs = <<I64(FALSE, U64(0, 0, 0, 65280)), I64(FALSE, U64(0, 0, 0, 255))>> =>
                   ev.ret = [min |-> U64(0, 0, 0, 255), ty |-> 2]
            /\ (\A i \in 1..Len(xs) : SmallInt(xs[i])) =>
                   LET narrow == WordTy_select_min_and_ty([i \in 1..Len(xs) |-> IntOf(xs[i])])
                   IN  /\ narrow.ty = ev.ret.ty
                       /\ narrow.min = min[3] * Limb + min[4]

\* a negative value was the largest as unsigned and forced eight-byte words
C16_Witness ==
    /\ ev.fn = "select_min_and_ty"
    /\ \E i \in 1..Len(ev.arg) : ev.arg[i].neg
    /\ \E i \in 1..Len(ev.arg) : ~ev.arg[i].neg /\ as_u64(ev.arg[i]) = ev.ret.min
    /\ ev.ret.ty = 8

(***************************************************************************)
(* Properties: tracks of every value kind (SpecKinds).                     *)
(***************************************************************************)
\* C17: every track recorded in the block metadata by finish_track after a
\* write_dict_encoded of a non-empty input has lo_val <= hi_val as i64
C17_LoValAtMostHiVal ==
    (result = Res("finish_track", "") /\ vals_in # <<>>) =>
        \A t \in 1..Len(bw.meta.track_lo_vals) :
            ~I64_lt(bw.meta.track_hi_vals[t], bw.meta.track_lo_vals[t])

(***************************************************************************)
(* Properties: repeated writes to one track (SpecChunks).                  *)
(***************************************************************************)
\* C18: whatever code chunks a track writer has noted, the number of bits set in
\* code_chunk_populated is the length of code_chunk_mins and of code_chunk_maxs,
\* and TrackMeta::write never reports a mismatch between them
C18_PopulatedCountsChunks ==
    /\ Bitmap256_count(tw.meta.code_chunk_populated) = Len(tw.meta.code_chunk_mins)
    /\ Len(tw.meta.code_chunk_mins) = Len(tw.meta.code_chunk_maxs)
    /\ result.err \notin {"min/max dict code mismatch",
                          "dict code populated-bitset count mismatch"}

\* a track finished after its 256th code chunk, noted over many calls
C18_Witness ==
    /\ result = Res("finish_track", "")
    /\ Len(tw.meta.code_chunk_maxs) = 256
    /\ tw.info.rows = 1

(***************************************************************************)
(* Properties: reader handles (SpecReaders).                               *)
(***************************************************************************)
\* a handle that alone makes the calls of log, one after the other, on a reader
\* just opened at position 0
RECURSIVE Alone(_, _)
Alone(h, log) ==
    IF log = <<>> THEN h
    ELSE IF Head(log).op = "read"
    THEN LET x == read_exact(h.rd.cursor, Head(log).arg)
         IN  Alone([rd |-> [h.rd EXCEPT !.cursor = x.rd],
                    got |-> [err |-> x.err, buf |-> x.buf], log |-> h.log], Tail(log))
    ELSE LET x == seek_to(h.rd.cursor, Head(log).arg)
         IN  Alone([h EXCEPT !.rd.cursor = x.rd], Tail(log))

FreshReader(kind) ==
    [kind |-> kind, cursor |-> [mem |-> ReaderContent, pos |-> 0],
     path |-> IF kind = "file" THEN ReaderPath ELSE ""]

\* C19: every handle, the clones included, is where it would be, and was
\* returned the bytes it would have been returned, had it alone made its own
\* reads and seeks from position 0 of the content: the calls made on the other
\* handles in between change nothing for it
C19_HandlesIndependent ==
    \A j \in 1..Len(handles) :
        LET alone == Alone([rd |-> FreshReader(handles[j].rd.kind), got |-> NoneRead,
                            log |-> <<>>], handles[j].log)
        IN  /\ handles[j].rd = alone.rd
            /\ handles[j].got = alone.got

\* a clone made after the first handle had moved has read bytes, and the first
\* handle has read again after that
C19_Witness ==
    /\ Len(handles) = 2
    /\ handles[2].got.buf # <<>>
    /\ handles[1].rd.cursor.pos > handles[2].rd.cursor.pos
    /\ handles[2].rd.cursor.pos > 0
    /\ Len(handles[1].log) >= 2

(***************************************************************************)
(* Properties: Bitmap256 (SpecBitmap).                                     *)
(***************************************************************************)
\* the number of positions 0..=i at which get answers true
SetBitsUpTo(b, i) == Cardinality({j \in 0..i : Bitmap256_get_w(b, j)})

\* C20: rank(i) is the number of set bits at positions 0..=i, for every i in
\* 0..=255; so rank does not decrease from i - 1 to i nor from i to i + 1,
\* rank(255) is count(), and that is 256 when every bit is set
C20_RankCountsSetBits ==
    ev.fn = "Bitmap256::rank" =>
        /\ ev.ret = SetBitsUpTo(bitmap, ev.arg)
        /\ ev.arg > 0 => Bitmap256_rank(bitmap, ev.arg - 1) <= ev.ret
        /\ ev.arg < MaxBit => ev.ret <= Bitmap256_rank(bitmap, ev.arg + 1)
        /\ Bitmap256_rank(bitmap, MaxBit) = Bitmap256_count_w(bitmap)
        /\ Bitmap256_is_full(bitmap) => Bitmap256_rank(bitmap, MaxBit) = 256

\* rank(255) asked of the full bitmap answers 256
C20_Witness ==
    /\ ev.fn = "Bitmap256::rank"
    /\ ev.arg = MaxBit
    /\ Bitmap256_is_full(bitmap)
    /\ ev.ret = 256

(***************************************************************************)
(* Properties: DoubleBitmap256 (SpecDouble).                               *)
(***************************************************************************)
\* C21: after set(i, v), whatever sets came before, get(i) is v and get(j) is
\* what it was before the call for every other j in 0..=255
C21_DoubleSetGetFrame ==
    ev.fn = "DoubleBitmap256::set" =>
        /\ DoubleBitmap256_get(double, ev.arg[1]) = ev.arg[2]
        /\ \A j \in (0..MaxBit) \ {ev.arg[1]} :
              DoubleBitmap256_get(double, j) = DoubleBitmap256_get(ev.ret, j)

\* a 3 written at 31 over a 1, next to a 2 at 32 in the following word
C21_Witness ==
    /\ ev.fn = "DoubleBitmap256::set"
    /\ ev.arg = <<31, 3>>
    /\ DoubleBitmap256_get(ev.ret, 31) = 1
    /\ DoubleBitmap256_get(double, 32) = 2
    /\ DoubleBitmap256_get(double, 0) = 3

(***************************************************************************)
(* Properties: run_end_encode, run by run (SpecEnc).                       *)
(***************************************************************************)
\* the rows (numbered from 0) that are the last of a maximal run of xs
RunLastRows(xs) ==
    {i \in 0..(Len(xs) - 1) : i = Len(xs) - 1 \/ xs[i + 2] # xs[i + 1]}

\* C22: run_end_encode(xs) gives one (value, end) pair per maximal run: row i
\* is in run_ends iff it is the last row of xs or xs[i+1] # xs[i], the ends are
\* in increasing order, and the value paired with end i is xs[i]; no row gives
\* two empty vectors and one row gives one run with end 0
C22_RunEndsAreRunLastRows ==
    ev.fn = "run_end_encode" =>
        LET xs == ev.arg
            r == ev.ret
        IN  /\ r.err = ""
            /\ Len(r.run_vals) = Len(r.run_ends)
            /\ {r.run_ends[k] : k \in 1..Len(r.run_ends)} = RunLastRows(xs)
            /\ Len(r.run_ends) = Cardinality(RunLastRows(xs))
            /\ \A k \in 1..Len(r.run_ends) :
                  /\ r.run_ends[k] \in 0..(Len(xs) - 1) => r.run_vals[k] = xs[r.run_ends[k] + 1]
                  /\ k > 1 => r.run_ends[k - 1] < r.run_ends[k]
            /\ Len(xs) = 0 => r.run_vals = <<>> /\ r.run_ends = <<>>
            /\ Len(xs) = 1 => r.run_vals = <<xs[1]>> /\ r.run_ends = <<0>>

(***************************************************************************)
(* Properties: the words of a dict-entry chunk (SpecTrack).                *)
(***************************************************************************)
\* the annotated ranges of the file that hold the value words of dict-entry
\* chunk 0 (the track of SpecTrack has one dict-entry chunk)
EntryWordRanges ==
    {k \in 1..Len(wr.annotations) :
        LET name == wr.annotations[k].name
        IN  /\ Len(name) >= 3
            /\ name[Len(name) - 2] = "dict_entry_chunks"
            /\ name[Len(name) - 1] = "0"}

\* C23: every value x of a dict-entry chunk is stored as the word x - min of
\* the width chosen by select_min_and_ty, min being the chunk's minimum, so
\* that the stored word plus min is x
C23_EntryWordsAreOffsetsFromMin ==
    (stage = "track" /\ result = Res("write_dict_encoded", "") /\ vals_in # <<>>) =>
        LET entries == Chunk(dict_encode(vals_in).dict, ChunkLen, 0)
            sel == WordTy_select_min_and_ty(entries)
            N == WordTy_len(sel.ty)
            pad == [i \in 1..(8 - N) |-> 0]
        IN  /\ EntryWordRanges # {}
            /\ \A k \in EntryWordRanges :
                 LET start == wr.annotations[k].range[1]
                     word(j) == from_le_bytes(
                         Vec_slice(wr.mem, start + (j - 1) * N + 1, start + j * N) \o pad)
                 IN  /\ wr.annotations[k].range[2] - start = Len(entries) * N
                     /\ \A j \in 1..Len(entries) :
                           /\ word(j) = entries[j] - sel.min
                           /\ word(j) + sel.min = entries[j]

(***************************************************************************)
(* Properties: TrackMeta written and read back (Spec).                     *)
(***************************************************************************)
\* C24: the TrackMeta that finish_track wrote, read back from the position
\* where its footer ends, is the TrackMeta written, field for field
C24_TrackMetaRoundTrip ==
    (stage = "block" /\ result = Res("finish_track", "")) =>
        TrackMeta_read_from_footer_end(MemReader_new(wr.mem), tw.info.end_pos)
            = [err |-> "", meta |-> tw.meta]

(***************************************************************************)
(* Properties: TrackMap against the bytes written (Spec).                  *)
(***************************************************************************)
\* where the writer put chunk k of the chunks named kind ("dict_entry_chunks" or
\* "dict_code_chunks"): the least start of the ranges annotated under kind, k;
\* -1 when there is no such chunk
ChunkStart(kind, k) ==
    LET starts == {wr.annotations[a].range[1] : a \in
                     {a \in 1..Len(wr.annotations) :
                        \E p \in 1..(Len(wr.annotations[a].name) - 1) :
                           /\ wr.annotations[a].name[p] = kind
                           /\ wr.annotations[a].name[p + 1] = ToString(k)}}
    IN  IF starts = {} THEN 0 - 1 ELSE CHOOSE s \in starts : \A t \in starts : s <= t

\* C25: after write_dict_encoded the TrackMap of the track's metadata has one
\* dict offset per dict-entry chunk written and an offset for each populated
\* code chunk, and these offsets are those at which the writer put the chunks,
\* counted from the first dict-entry chunk: the sizes of the chunks before
C25_TrackMapOffsetsAreWritten ==
    (stage = "track" /\ result = Res("write_dict_encoded", "") /\ vals_in # <<>>) =>
        LET map == TrackMap_new(tw.meta, FALSE)
            de == dict_encode(vals_in)
            n_dict == NChunks(de.dict, ChunkLen)
            n_code == NChunks(de.codes, ChunkLen)
            base == ChunkStart("dict_entry_chunks", 0)
        IN  /\ Len(map.dict_chunk_offsets) = n_dict
            /\ \A k \in 0..(n_dict - 1) :
                  map.dict_chunk_offsets[k + 1] = ChunkStart("dict_entry_chunks", k) - base
            /\ Len(map.code_chunk_offsets) >= n_code
            /\ \A k \in 0..(n_code - 1) :
                  /\ map.code_chunk_offsets[k + 1].some
                  /\ map.code_chunk_offsets[k + 1].val
                        = ChunkStart("dict_code_chunks", k) - base

(***************************************************************************)
(* Properties: dict_entry_count (Spec).                                    *)
(***************************************************************************)
\* the u16 written as "len" at the start of the dict-entry chunks of the track;
\* -1 when nothing was written
WrittenDictLen ==
    LET at == {a \in 1..Len(wr.annotations) :
                 LET name == wr.annotations[a].name
                 IN  /\ Len(name) >= 2
                     /\ name[Len(name) - 1] = "dict_entry_chunks"
                     /\ name[Len(name)] = "len"}
        last == CHOOSE a \in at : \A b \in at : b <= a
        start == wr.annotations[last].range[1]
    IN  IF at = {} THEN 0 - 1
        ELSE Vec_get(wr.mem, start + 1) + 256 * Vec_get(wr.mem, start + 2)

\* C26: after write_dict_encoded(xs) and finish_track the metadata's
\* dict_entry_count is the number of distinct values of xs, the number written
\* as "len", and lies within the last of the dict-entry chunks written
C26_DictEntryCountIsDistinctValues ==
    (stage = "block" /\ result = Res("finish_track", "") /\ vals_in # <<>>) =>
        LET distinct == Cardinality({vals_in[i] : i \in 1..Len(vals_in)})
            chunks == NChunks(dict_encode(vals_in).dict, ChunkLen)
        IN  /\ tw.meta.dict_entry_count = distinct
            /\ tw.meta.dict_entry_count = WrittenDictLen
            /\ chunks * 256 >= tw.meta.dict_entry_count
            /\ tw.meta.dict_entry_count > (chunks - 1) * 256

(***************************************************************************)
(* Properties: the 16-bit counters of a track over 256 chunks (SpecChunks).*)
(***************************************************************************)
\* C27: while a track has no more than 256 dict-entry chunks and 256 code
\* chunks, write_dict_encoded ends without error and the 16-bit
\* dict_entry_count has not wrapped: the chunk number taken from it is the
\* number of chunks noted
C27_NoCounterWrapsWithin256Chunks ==
    result.op = "write_dict_encoded" =>
        /\ result.err # "" => Len(tw.meta.code_chunk_maxs) >= 256
        /\ result.err = "" =>
              tw.meta.dict_entry_count \div 256 = Len(tw.meta.code_chunk_maxs)

(***************************************************************************)
(* Properties: the prefix component of a bin (SpecKinds).                  *)
(***************************************************************************)
\* the first 8 bytes of a bin, zero-padded
First8(x) == [i \in 1..8 |-> IF i <= Len(x.bytes) THEN x.bytes[i] ELSE 0]

\* C28: of any two bins written to a track, the one whose first 8 bytes
\* (zero-padded) come first bytewise has the lesser prefix component, as i64
C28_BinPrefixKeepsOrder ==
    (result.op = "write_dict_encoded" /\ vals_in # <<>> /\ vals_in[1].kind = "bin") =>
        \A i, j \in 1..Len(vals_in) :
            slice_lt(First8(vals_in[i]), First8(vals_in[j])) =>
                I64_lt(get_component_as_int(vals_in[i], 0),
                       get_component_as_int(vals_in[j], 0))

(***************************************************************************)
(* Properties: the choice between plain and run-end codes (SpecTrack).     *)
(***************************************************************************)
\* the bytes the writer put for code chunk k: from the least start to the
\* greatest end of the ranges annotated under dict_code_chunks, k
CodeChunkBytes(k) ==
    LET in == {a \in 1..Len(wr.annotations) :
                 \E p \in 1..(Len(wr.annotations[a].name) - 1) :
                    /\ wr.annotations[a].name[p] = "dict_code_chunks"
                    /\ wr.annotations[a].name[p + 1] = ToString(k)}
        ends == {wr.annotations[a].range[2] : a \in in}
    IN  IF in = {} THEN 0
        ELSE (CHOOSE e \in ends : \A f \in ends : f <= e) - ChunkStart("dict_code_chunks", k)

\* C29: the code chunk of a track is marked run-coded, and holds a value and a
\* u16 end per run, iff #runs * (w + 2) < len * w, w being 2 when a code of the
\* chunk is over 0xff and 1 otherwise; if not, it holds len * w bytes of plain
\* codes and is not marked
C29_RunCodedIffStrictlySmaller ==
    (stage = "track" /\ result = Res("write_dict_encoded", "") /\ vals_in # <<>>) =>
        LET codes == Chunk(dict_encode(vals_in).codes, ChunkLen, 0)
            runs == Cardinality(RunLastRows(codes))
            w == IF \E i \in 1..Len(codes) : codes[i] > 255 THEN 2 ELSE 1
            smaller == runs * (w + 2) < Len(codes) * w
        IN  /\ Bitmap256_get(tw.meta.code_chunk_run_coded, 0) <=> smaller
            /\ CodeChunkBytes(0) = IF smaller THEN runs * (w + 2) ELSE Len(codes) * w


(***************************************************************************)
(* The annotation context stack against the writer nesting (Spec).         *)
(***************************************************************************)
\* the depth of the context stack at each position of a well-nested sequence
\* that has not failed: nothing open, a layer open, a block open in it, a
\* track open in that block
NestingDepth ==
    CASE stage = "layer" -> 1
      [] stage = "block" -> 3
      [] stage = "track" -> 5
      [] OTHER -> 0

\* C30: in every successful well-nested sequence of LayerWriter::new,
\* begin_block, begin_track, write_dict_encoded, finish_track, finish_block
\* and finish_layer, the context stack is as deep after each finish as it was
\* just before the matching begin (1 around a block, 3 around a track), it is
\* empty after finish_layer, and no pop ever finds it empty
C30_ContextDepthFollowsNesting ==
    stage # "error" =>
        /\ Len(wr.context) = NestingDepth
        /\ ~wr.popped_none

\* a layer finished after two blocks, the second one holding a written track
C30_Witness ==
    /\ stage = "finished"
    /\ result = Res("finish_layer", "")
    /\ Len(lw.block_end_offsets) = 2
    /\ Len(bw.meta.track_end_offsets) = 1
    /\ vals_in # <<>>
    /\ wr.context = <<>>
====
